---- MODULE Spec2Model ----
(***************************************************************************)
(* Scene segmentation, storyboard parsing, subtitle chunking, subtitle     *)
(* timing, SRT output and the stages of generate_video of oslo             *)
(* (src/src/oslo/text_processor.py, conte.py, subtitles.py, tts.py,        *)
(* library.py, image_gen.py, pipeline.py).                                 *)
(*                                                                         *)
(* Text is a sequence of characters.  A character is written as a token    *)
(* naming one Unicode code point ("ha" is U+306F, "maru" is U+3002, "sp"   *)
(* is the ASCII space ...), so that the classes the code distinguishes     *)
(* (CJK ranges, whitespace, punctuation sets, break characters) are sets   *)
(* of tokens.                                                              *)
(***************************************************************************)
EXTENDS Integers, Sequences, FiniteSets, TLC

(***************************************************************************)
(* Bounds of the model.                                                    *)
(***************************************************************************)
\* Significand width of the modelled binary floating point (Python: 53).
Precision == 4
\* Every modelled float is a multiple of 2^-FracBits (the exponent floor).
FracBits == 2
\* Largest audio duration drawn, in half seconds.
MaxHalves == 7
\* Largest number of scenes handed to generate_subtitles.
MaxScenes == 2
\* Largest number of runs a drawn text is made of.
MaxRuns == 3
\* Largest number of sentences a text handed to split_into_scenes is made of.
MaxPieces == 7
\* Largest max_duration drawn below the default, in seconds.
MaxSeconds == 4
\* Largest number of sections a storyboard is written from.
MaxSections == 2
\* Largest length of a part handed to the re-split loop.
MaxCutLen == 41
\* Largest max_retries handed to retry_on_rate_limit.
MaxRetries == 3

(***************************************************************************)
(* Character classes.                                                      *)
(***************************************************************************)
\* str.strip / str.split / regex \s: " ", "\n", and U+3000 (ideographic space)
Whitespace == {"sp", "nl", "isp"}

\* Hiragana of _JP_BREAK_CHARS, _NO_BREAK_PAIRS
Hiragana ==
    {"ha", "ga", "wo", "ni", "de", "to", "mo", "he", "no", "te", "ta", "da",
     "ru", "i", "su", "u", "shi"}

\* Katakana of _NO_BREAK_BEFORE: U+30FC and the small kana
Katakana ==
    {"chouon", "small_tsu", "small_ya", "small_yu", "small_yo", "small_a",
     "small_i", "small_u", "small_e", "small_o"}

\* _CJK_RANGES: U+3000-303F ("isp", "ten", "maru", "kagi_close"), hiragana,
\* katakana, ideographs ("kan").  The full-width forms U+FF01 ("fw_bang"),
\* U+FF1F ("fw_qm"), U+FF0C ("fw_comma"), U+FF0E ("fw_dot") and U+FF09
\* ("fw_paren_close") lie outside every range.
CJKChars ==
    {"isp", "ten", "maru", "kagi_close", "kan"} \cup Hiragana \cup Katakana

\* re.split(r"(?<=[...])") of _split_for_subtitles
SubtitlePunct == {"maru", "ten", "fw_bang", "fw_qm", "fw_comma"}

_JP_BREAK_CHARS ==
    {"ha", "ga", "wo", "ni", "de", "to", "mo", "he", "no", "te", "ta", "da",
     "ru", "i", "su"}

_NO_BREAK_BEFORE ==
    {"chouon", "small_tsu", "small_ya", "small_yu", "small_yo", "small_a",
     "small_i", "small_u", "small_e", "small_o", "kagi_close", "fw_paren_close"}

_NO_BREAK_PAIRS == {<<"su", "ru">>, <<"i", "u">>, <<"de", "shi">>}

(***************************************************************************)
(* Sequence helpers (Python slicing, str.strip, str.split, re.split).      *)
(***************************************************************************)
\* s[:n] for 0 <= n
Take(s, n) == SubSeq(s, 1, IF n < Len(s) THEN n ELSE Len(s))

\* s[n:] for 0 <= n
Drop(s, n) == SubSeq(s, n + 1, Len(s))

\* smallest and largest element of a non-empty finite set of integers
SetMin(S) == CHOOSE x \in S : \A y \in S : x <= y
SetMax(S) == CHOOSE x \in S : \A y \in S : x >= y

\* the elements of a finite set of integers in increasing order
SortedSeq(S) ==
    [k \in 1..Cardinality(S) |->
        CHOOSE x \in S : Cardinality({y \in S : y <= x}) = k]

\* the number of characters of s that lie in set
CountIn(s, set) == Cardinality({i \in 1..Len(s) : s[i] \in set})

\* a variant that strips nothing
StripNothing(s) == s

\* str.strip(): from the first to the last non-whitespace character
Strip(s) ==
    LET visible == {i \in 1..Len(s) : s[i] \notin Whitespace}
    IN  IF visible = {} THEN <<>>
        ELSE SubSeq(s, SetMin(visible), SetMax(visible))

\* re.sub(r"\s+", "", text)
NotWhitespace(c) == c \notin Whitespace
RemoveWhitespace(s) == SelectSeq(s, NotWhitespace)

\* str.split(): the maximal runs of non-whitespace characters, in order
Split(s) ==
    LET n == Len(s)
        starts == {i \in 1..n : /\ s[i] \notin Whitespace
                                /\ (i = 1 \/ s[i - 1] \in Whitespace)}
        ends == {i \in 1..n : /\ s[i] \notin Whitespace
                              /\ (i = n \/ s[i + 1] \in Whitespace)}
        first == SortedSeq(starts)
        last == SortedSeq(ends)
    IN  [k \in 1..Len(first) |-> SubSeq(s, first[k], last[k])]

\* re.split(r"(?<=[set])", s) with the empty pieces dropped: cut after every
\* character of set.
SplitAfter(s, set) ==
    LET n == Len(s)
        cuts == SortedSeq({i \in 1..n : s[i] \in set \/ i = n})
    IN  [k \in 1..Len(cuts) |->
            SubSeq(s, IF k = 1 THEN 1 ELSE cuts[k - 1] + 1, cuts[k])]

\* sep.join(parts)
RECURSIVE Join(_, _)
Join(parts, sep) ==
    IF parts = <<>> THEN <<>>
    ELSE IF Len(parts) = 1 THEN parts[1]
    ELSE parts[1] \o sep \o Join(Tail(parts), sep)

RECURSIVE Concat(_)
Concat(parts) ==
    IF parts = <<>> THEN <<>> ELSE Head(parts) \o Concat(Tail(parts))

(***************************************************************************)
(* Language classifier.                                                    *)
(***************************************************************************)
\* cjk_count > len(text) * 0.2.  The double len * 0.2 equals len / 5 whenever
\* 5 divides len, so the comparison is the integer one.
_is_cjk_dominant(text) == 5 * CountIn(text, CJKChars) > Len(text)

(***************************************************************************)
(* Subtitle chunker.                                                       *)
(***************************************************************************)
max_chars == 20
merge_max == 22
short_chunk == 3

\* for i in range(max_pos, min_search, -1): the first i that qualifies, searched
\* downward from i; max_pos when the window is exhausted.  text[i - 1] of the
\* code is text[i] here (sequences start at 1).
RECURSIVE FindBreakFrom(_, _, _, _)
FindBreakFrom(text, i, min_search, max_pos) ==
    IF i <= min_search THEN max_pos
    ELSE IF /\ text[i] \in _JP_BREAK_CHARS
            /\ ~(i < Len(text) /\ text[i + 1] \in _NO_BREAK_BEFORE)
            /\ ~(i < Len(text) /\ <<text[i], text[i + 1]>> \in _NO_BREAK_PAIRS)
         THEN i
         ELSE FindBreakFrom(text, i - 1, min_search, max_pos)

\* a variant whose window reaches one position further down
MinSearchLower(max_pos) ==
    IF (max_pos * 2) \div 5 > 4 THEN (max_pos * 2) \div 5 - 1 ELSE 3

MinSearch(max_pos) ==
    IF (max_pos * 2) \div 5 > 4 THEN (max_pos * 2) \div 5 ELSE 4

\* a variant that falls back one character too far
FindJpBreakLateFallback(text, max_pos) ==
    FindBreakFrom(text, max_pos, MinSearch(max_pos), max_pos + 1)

_find_jp_break(text, max_pos) ==
    FindBreakFrom(text, max_pos, MinSearch(max_pos), max_pos)

\* a variant that forgets the remainder once it fits
RECURSIVE ResplitDropsRemainder(_)
ResplitDropsRemainder(part) ==
    IF Len(part) > max_chars
    THEN LET pos == _find_jp_break(part, max_chars)
         IN  <<Take(part, pos)>> \o ResplitDropsRemainder(Drop(part, pos))
    ELSE <<>>

\* while len(part) > max_chars: cut at _find_jp_break; if part: append
RECURSIVE Resplit(_)
Resplit(part) ==
    IF Len(part) > max_chars
    THEN LET pos == _find_jp_break(part, max_chars)
         IN  <<Take(part, pos)>> \o Resplit(Drop(part, pos))
    ELSE IF part # <<>> THEN <<part>> ELSE <<>>

RECURSIVE ResplitAll(_)
ResplitAll(parts) ==
    IF parts = <<>> THEN <<>>
    ELSE Resplit(Head(parts)) \o ResplitAll(Tail(parts))

\* a variant that folds every short chunk, whatever the combined length
MergeFitsNoCeiling(prev, c) == Len(c) <= short_chunk

\* a variant whose ceiling is max_chars
MergeFitsLowCeiling(prev, c) ==
    Len(c) <= short_chunk /\ Len(prev) + Len(c) <= max_chars

\* len(c) <= 3 and len(merged[-1]) + len(c) <= merge_max
MergeFits(prev, c) ==
    Len(c) <= short_chunk /\ Len(prev) + Len(c) <= merge_max

\* a variant that keeps only the predecessor when it folds
RECURSIVE MergeDropsFolded(_, _)
MergeDropsFolded(merged, rest) ==
    IF rest = <<>> THEN merged
    ELSE LET c == Head(rest)
             last == merged[Len(merged)]
         IN  IF MergeFits(last, c)
             THEN MergeDropsFolded(merged, Tail(rest))
             ELSE MergeDropsFolded(Append(merged, c), Tail(rest))

\* for c in chunks[1:]: fold c into merged[-1] or append it
RECURSIVE MergeShortChunks(_, _)
MergeShortChunks(merged, rest) ==
    IF rest = <<>> THEN merged
    ELSE LET c == Head(rest)
             last == merged[Len(merged)]
         IN  IF MergeFits(last, c)
             THEN MergeShortChunks(
                      [merged EXCEPT ![Len(merged)] = last \o c], Tail(rest))
             ELSE MergeShortChunks(Append(merged, c), Tail(rest))

CjkChunks(text) ==
    LET clean == RemoveWhitespace(text)
        parts == SplitAfter(clean, SubtitlePunct)
        chunks == ResplitAll(parts)
    IN  IF Len(chunks) > 1
        THEN MergeShortChunks(<<chunks[1]>>, Tail(chunks))
        ELSE chunks

_split_for_subtitles(text) ==
    IF _is_cjk_dominant(text) THEN CjkChunks(text) ELSE Split(text)

(***************************************************************************)
(* Scene (dataclass) and its __post_init__.                                *)
(***************************************************************************)
\* Scene(index, narration_text, image_prompt, tts_text, words): the empty
\* sequence stands for the defaults "" and [].  image_prompt, stat_overlay
\* and library_image take no part in what follows and are left out.
Scene(index, narration_text, tts_text, words) ==
    [index |-> index,
     narration_text |-> narration_text,
     tts_text |-> IF tts_text = <<>> THEN narration_text ELSE tts_text,
     words |-> IF words = <<>>
               THEN _split_for_subtitles(narration_text)
               ELSE words]

(***************************************************************************)
(* Scene segmenter: the pure functions of split_into_scenes.               *)
(***************************************************************************)
DEFAULT_WPM == 150
DEFAULT_CPM == 350
MIN_SEGMENT_CHARS == 30
MIN_SEGMENT_WORDS == 10

_segment_length(text) ==
    IF _is_cjk_dominant(text) THEN Len(Strip(text)) ELSE Len(Split(text))

_min_segment_size(text) ==
    IF _is_cjk_dominant(text) THEN MIN_SEGMENT_CHARS ELSE MIN_SEGMENT_WORDS

\* A duration of the segmenter is held as an integer number of units of
\* 1 / (DEFAULT_WPM * DEFAULT_CPM) second.  (count / DEFAULT_CPM) * 60.0 and
\* (count / DEFAULT_WPM) * 60.0 are then count * 60 * DEFAULT_WPM and
\* count * 60 * DEFAULT_CPM units.  For the counts and the whole-second
\* max_duration values drawn below (at most 21 seconds, or the default 90.0
\* against texts shorter than 155 units) the doubles of the code compare,
\* and truncate under int(), exactly as these integers do.
Seconds(d) == d * DEFAULT_WPM * DEFAULT_CPM

estimate_duration(text) ==
    IF _is_cjk_dominant(text)
    THEN Len(RemoveWhitespace(text)) * 60 * DEFAULT_WPM
    ELSE Len(Split(text)) * 60 * DEFAULT_CPM

\* the marks truncate_to_duration looks for with rfind: U+3002, ".", U+FF01,
\* U+FF1F
TerminalMarks == {"maru", "dot", "fw_bang", "fw_qm"}

\* max of str.rfind over the characters of set, counted from 1: the last
\* position of s holding a character of set, 0 when there is none (rfind's -1)
LastIn(s, set) == SetMax({0} \cup {i \in 1..Len(s) : s[i] \in set})

\* truncated, before the search for a mark: text[:max_chars] or
\* " ".join(words[:max_words])
SliceToDuration(text, d) ==
    IF _is_cjk_dominant(text)
    THEN Take(text, (d * DEFAULT_CPM) \div 60)
    ELSE Join(Take(Split(text), (d * DEFAULT_WPM) \div 60), <<"sp">>)

truncate_to_duration(text, d) ==
    IF estimate_duration(text) <= Seconds(d) THEN text
    ELSE LET truncated == SliceToDuration(text, d)
             last_period == LastIn(truncated, TerminalMarks) - 1
         IN  IF last_period > Len(truncated) \div 2
             THEN Take(truncated, last_period + 1)
             ELSE truncated

\* [p.strip() for p in parts if p.strip()]
RECURSIVE StripNonEmpty(_)
StripNonEmpty(parts) ==
    IF parts = <<>> THEN <<>>
    ELSE (IF Strip(Head(parts)) = <<>> THEN <<>> ELSE <<Strip(Head(parts))>>)
         \o StripNonEmpty(Tail(parts))

\* re.split(r"\n\s*\n", s): a match runs from a newline to the last newline
\* of the whitespace run it stands in, so s is cut at every maximal whitespace
\* run that holds two newlines or more.  The whitespace a match leaves at the
\* edges of a piece is stripped by the caller, so the pieces are taken here
\* without it.
ParagraphPieces(s) ==
    LET n == Len(s)
        RunEnd(i) == SetMin({j \in i..n : j = n \/ s[j + 1] \notin Whitespace})
        gaps == {i \in 1..n : /\ s[i] \in Whitespace
                              /\ (i = 1 \/ s[i - 1] \notin Whitespace)
                              /\ CountIn(SubSeq(s, i, RunEnd(i)), {"nl"}) >= 2}
        gap == SortedSeq(gaps)
        m == Len(gap)
    IN  [k \in 1..(m + 1) |->
            SubSeq(s, IF k = 1 THEN 1 ELSE RunEnd(gap[k - 1]) + 1,
                      IF k = m + 1 THEN n ELSE gap[k] - 1)]

_split_into_paragraphs(text) ==
    StripNonEmpty(ParagraphPieces(Strip(text)))

\* the lookbehind class of _split_into_sentences: U+3002, U+FF0E, ".",
\* U+FF01, "!", U+FF1F, "?", "\n"
SentenceEnds ==
    {"maru", "fw_dot", "dot", "fw_bang", "bang", "fw_qm", "qm", "nl"}

\* re.split(r"(?<=[...])\s*", s): a cut after every character of the class;
\* the whitespace a match consumes is whitespace the caller strips.
_split_into_sentences(text) ==
    StripNonEmpty(SplitAfter(Strip(text), SentenceEnds))

\* for para in segments: all_sentences.extend(_split_into_sentences(para))
RECURSIVE AllSentences(_)
AllSentences(paragraphs) ==
    IF paragraphs = <<>> THEN <<>>
    ELSE _split_into_sentences(Head(paragraphs))
         \o AllSentences(Tail(paragraphs))

\* segments, from the truncated text up to "segments = [text]"
SegmentsOf(text) ==
    LET paragraphs == _split_into_paragraphs(text)
        sentences == IF Len(paragraphs) < 3
                     THEN AllSentences(paragraphs)
                     ELSE paragraphs
    IN  IF Len(sentences) < 2 THEN <<text>> ELSE sentences

\* a variant without the ceiling of six
TargetScenesUncapped(n) == IF n < 3 THEN 3 ELSE n

\* min(6, max(3, len(segments)))
TargetScenes(n) == IF n < 3 THEN 3 ELSE IF n > 6 THEN 6 ELSE n

\* a variant whose group size is the whole quotient n // target_scenes
GroupBoundWholeSize(i, n, target_scenes) == i * (n \div target_scenes)

\* int(i * group_size) with group_size = n / target_scenes: equal to the
\* floor of i * n / target_scenes for every n the model can reach
GroupBound(i, n, target_scenes) == (i * n) \div target_scenes

\* if len(segments) > target_scenes: target_scenes groups joined by "\n"
GroupToTarget(segs) ==
    LET n == Len(segs)
        target_scenes == TargetScenes(n)
    IN  IF n > target_scenes
        THEN [g \in 1..target_scenes |->
                 Join(SubSeq(segs, GroupBound(g - 1, n, target_scenes) + 1,
                             GroupBound(g, n, target_scenes)),
                      <<"nl">>)]
        ELSE segs

\* for seg in segments[1:]: fold seg into merged[-1] or append it
RECURSIVE MergeWalk(_, _, _)
MergeWalk(merged, rest, min_size) ==
    IF rest = <<>> THEN merged
    ELSE LET last == merged[Len(merged)]
         IN  IF _segment_length(last) < min_size
             THEN MergeWalk(
                      [merged EXCEPT ![Len(merged)] =
                           last \o <<"nl">> \o Head(rest)],
                      Tail(rest), min_size)
             ELSE MergeWalk(Append(merged, Head(rest)), Tail(rest), min_size)

\* a variant that drops a short last segment instead of folding it
MergeDropsShortLast(segs) ==
    IF segs = <<>> THEN segs
    ELSE LET min_size == _min_segment_size(Concat(segs))
             merged == MergeWalk(<<segs[1]>>, Tail(segs), min_size)
             k == Len(merged)
         IN  IF k > 1 /\ _segment_length(merged[k]) < min_size
             THEN SubSeq(merged, 1, k - 1)
             ELSE merged

_merge_short_segments(segs) ==
    IF segs = <<>> THEN segs
    ELSE LET min_size == _min_segment_size(Concat(segs))
             merged == MergeWalk(<<segs[1]>>, Tail(segs), min_size)
             k == Len(merged)
         IN  IF k > 1 /\ _segment_length(merged[k]) < min_size
             THEN [SubSeq(merged, 1, k - 1) EXCEPT
                      ![k - 1] = merged[k - 1] \o <<"nl">> \o merged[k]]
             ELSE merged

(***************************************************************************)
(* Readings dictionary (readings.py).                                      *)
(***************************************************************************)
\* str.replace(old, new) for a non-empty old: every occurrence, left to
\* right, none overlapping
RECURSIVE Replace(_, _, _)
Replace(s, old, new) ==
    IF s = <<>> THEN <<>>
    ELSE IF Len(s) >= Len(old) /\ SubSeq(s, 1, Len(old)) = old
         THEN new \o Replace(Drop(s, Len(old)), old, new)
         ELSE <<Head(s)>> \o Replace(Tail(s), old, new)

\* for kanji, reading in readings.items(): text = text.replace(kanji, reading)
\* items is the sequence of the dictionary's <<kanji, reading>> pairs
RECURSIVE apply_readings(_, _)
apply_readings(text, items) ==
    IF items = <<>> THEN text
    ELSE apply_readings(Replace(text, Head(items)[1], Head(items)[2]),
                        Tail(items))

(***************************************************************************)
(* Conte (storyboard) parser: the pure functions of conte.py.              *)
(*                                                                         *)
(* "hash" is "#", "scene" the word "Scene" (or its katakana form), "colon" *)
(* and "fw_colon" the two colons; "lbl_narr", "lbl_vis", "lbl_stat" and    *)
(* "lbl_img" are the four field labels, each written between two "**";     *)
(* "bold" is any other "**".                                               *)
(***************************************************************************)
\* \w of the header pattern's \b
WordChars == {"a", "kan", "scene"} \cup Hiragana \cup Katakana

\* the tokens that begin with "**" (the lookahead \n\*\* of the field patterns)
StarTokens == {"bold", "lbl_narr", "lbl_vis", "lbl_stat", "lbl_img"}

\* the first position at or after i that holds no whitespace, Len(text) + 1
\* when there is none (where a greedy \s* started at i stops)
SkipWhitespace(text, i) ==
    SetMin({j \in i..(Len(text) + 1) :
               j = Len(text) + 1 \/ text[j] \notin Whitespace})

\* the last position of the line that position i stands in (.*$)
LineEnd(text, i) ==
    SetMin({j \in i..Len(text) : j = Len(text) \/ text[j + 1] = "nl"})

\* _SCENE_HEADER_PATTERN matches at i: ^##\s*(?:...|Scene)\b, where ^ is the
\* start of a line (re.MULTILINE)
SceneHeaderAt(text, i) ==
    /\ (i = 1 \/ text[i - 1] = "nl")
    /\ i + 1 <= Len(text)
    /\ text[i] = "hash" /\ text[i + 1] = "hash"
    /\ LET j == SkipWhitespace(text, i + 2)
       IN  /\ j <= Len(text)
           /\ text[j] = "scene"
           /\ (j = Len(text) \/ text[j + 1] \notin WordChars)

\* list(_SCENE_HEADER_PATTERN.finditer(text)): the matches in order, each as
\* <<start, end>>, the positions of its first and last character
SceneHeaders(text) ==
    LET starts == SortedSeq({i \in 1..Len(text) : SceneHeaderAt(text, i)})
    IN  [k \in 1..Len(starts) |->
            <<starts[k],
              LineEnd(text, SkipWhitespace(text, starts[k] + 2))>>]

\* is_conte_format(text)
is_conte_format(text) == SceneHeaders(text) # <<>>

\* all_h2_starts: the matches of _ANY_H2_PATTERN (^##\s)
AllH2Starts(text) ==
    {i \in 1..Len(text) :
        /\ (i = 1 \/ text[i - 1] = "nl")
        /\ i + 2 <= Len(text)
        /\ text[i] = "hash" /\ text[i + 1] = "hash"
        /\ text[i + 2] \in Whitespace}

\* block = text[start:end].strip() for the match m
BlockOf(text, m) ==
    LET later == {h \in AllH2Starts(text) : h > m[1]}
        end == IF later = {} THEN Len(text) ELSE SetMin(later) - 1
    IN  Strip(SubSeq(text, m[2] + 1, end))

\* LABEL\s*[:...]\s*(.+?)(?=\n\*\*|$) with re.DOTALL, searched in block:
\* group(1).strip() of the leftmost match, the empty text when there is no
\* match.  At the leftmost label that a colon follows, the greedy \s* runs to
\* the first non-whitespace character and the lazy group from there to the
\* first position followed by a newline and "**", or to the end.  When only
\* whitespace follows the colon the group is whitespace or there is no match.
ExtractField(block, label) ==
    LET n == Len(block)
        \* the position of the colon that follows the label at p, after
        \* optional whitespace; 0 when there is none
        ColonAfter(p) ==
            LET c == SkipWhitespace(block, p + 1)
            IN  IF c <= n /\ block[c] \in {"colon", "fw_colon"} THEN c ELSE 0
        labels == {p \in 1..n : block[p] = label /\ ColonAfter(p) > 0}
    IN  IF labels = {} THEN <<>>
        ELSE LET r == SkipWhitespace(block, ColonAfter(SetMin(labels)) + 1)
                 e == SetMin({j \in r..n :
                                \/ j >= n
                                \/ (/\ block[j + 1] = "nl"
                                    /\ j + 2 <= n
                                    /\ block[j + 2] \in StarTokens)})
             IN  IF r > n THEN <<>> ELSE Strip(SubSeq(block, r, e))

\* _extract_required_narration: the narration, <<>> when ValueError is raised
_extract_required_narration(block) == ExtractField(block, "lbl_narr")

\* _extract_visual, _extract_stat_overlay, _extract_library_image: <<>> is None
_extract_visual(block) == ExtractField(block, "lbl_vis")
_extract_stat_overlay(block) == ExtractField(block, "lbl_stat")
_extract_library_image(block) == ExtractField(block, "lbl_img")

\* Scene(index=i, narration_text=..., image_prompt=..., stat_overlay=...,
\* library_image=...); visual_text stands for the image_prompt built from it
ConteScene(i, block) ==
    LET base == Scene(i, _extract_required_narration(block), <<>>, <<>>)
    IN  [index |-> base.index,
         narration_text |-> base.narration_text,
         tts_text |-> base.tts_text,
         words |-> base.words,
         visual_text |-> _extract_visual(block),
         stat_overlay |-> _extract_stat_overlay(block),
         library_image |-> _extract_library_image(block)]

\* a variant that numbers the scenes of the messages from zero
SceneNumberFromZero(i) == i

\* the scene number of the messages: i + 1
SceneNumber(i) == i + 1

\* a variant that stays silent about a missing statistic
BlockWarningsNoStat(i, block) ==
    IF _extract_library_image(block) # <<>> /\ _extract_visual(block) # <<>>
    THEN <<[kind |-> "image_overrides_visual", scene |-> SceneNumber(i)]>>
    ELSE <<>>

\* the warnings.warn calls of one pass of the loop, in order
BlockWarnings(i, block) ==
    (IF _extract_stat_overlay(block) = <<>>
     THEN <<[kind |-> "stat_missing", scene |-> SceneNumber(i)]>>
     ELSE <<>>)
    \o (IF _extract_library_image(block) # <<>> /\ _extract_visual(block) # <<>>
        THEN <<[kind |-> "image_overrides_visual", scene |-> SceneNumber(i)]>>
        ELSE <<>>)

(***************************************************************************)
(* Retry wrapper (utils.py).  An exception is a record: cls is its class,  *)
(* status_code and code are the attributes of those names, NoAttr when the *)
(* object has no such attribute; 0 stands for a falsy value (None or 0).   *)
(***************************************************************************)
NoAttr == -1

\* isinstance(exc, RateLimitError)
IsRateLimitError(exc) == exc.cls = "RateLimitError"

\* isinstance(exc, APIError) for openai.APIError and its subclasses
IsOpenAIAPIError(exc) ==
    exc.cls \in {"APIError", "APIStatusError", "APIConnectionError",
                 "RateLimitError"}

\* isinstance(exc, ServerError)
IsServerError(exc) == exc.cls = "ServerError"

\* isinstance(exc, GeminiAPIError) for google.genai.errors.APIError and its
\* subclasses
IsGeminiAPIError(exc) ==
    exc.cls \in {"GeminiAPIError", "ClientError", "ServerError"}

\* _is_retryable(exc): "True", "False", or "AttributeError" when the read of
\* exc.status_code fails
_is_retryable(exc) ==
    IF IsRateLimitError(exc) THEN "True"
    ELSE IF IsOpenAIAPIError(exc) /\ exc.status_code = NoAttr
    THEN "AttributeError"
    ELSE IF /\ IsOpenAIAPIError(exc)
            /\ exc.status_code # 0
            /\ exc.status_code >= 500
    THEN "True"
    ELSE IF IsServerError(exc) THEN "True"
    ELSE IF IsGeminiAPIError(exc) /\ exc.code # NoAttr /\ exc.code = 429
    THEN "True"
    ELSE "False"

(***************************************************************************)
(* Library images and parser dispatch (library.py, pipeline.py).  "m", "d", *)
(* "M", "D", "t", "x" are the letters of a file suffix, "hyphen" and       *)
(* "underscore" the separators of a slug.                                  *)
(***************************************************************************)
\* _SLUG_PATTERN.match(slug): ^[a-z0-9]+(?:[_-][a-z0-9]+)*$
validate_slug(slug) ==
    LET alnum == {"a", "m", "d", "t", "x",
                  "0", "1", "2", "3", "4", "5", "6", "7", "8", "9"}
        seps == {"hyphen", "underscore"}
    IN  /\ slug # <<>>
        /\ \A k \in 1..Len(slug) : slug[k] \in alnum \cup seps
        /\ slug[1] \in alnum
        /\ slug[Len(slug)] \in alnum
        /\ \A k \in 1..(Len(slug) - 1) :
               slug[k] \in seps => slug[k + 1] \in alnum

\* a variant that looks at the text only
UsesConteByMarkupOnly(suffix, text) == is_conte_format(text)

\* input_file.suffix.lower() == ".md" or is_conte_format(text)
UsesConte(suffix, text) ==
    LET lower(c) == CASE c = "M" -> "m" [] c = "D" -> "d" [] OTHER -> c
    IN  \/ [k \in 1..Len(suffix) |-> lower(suffix[k])] = <<"dot", "m", "d">>
        \/ is_conte_format(text)

(***************************************************************************)
(* Python floats.  A float is held as an integer number of units of        *)
(* 2^-FracBits seconds; the representable values are the integers with at  *)
(* most Precision significant bits.  Every operation yields the            *)
(* representable value nearest to the exact result, ties to the even       *)
(* significand (IEEE 754 round-to-nearest-even, as Python's float).        *)
(***************************************************************************)
RECURSIVE Pow2(_)
Pow2(n) == IF n = 0 THEN 1 ELSE 2 * Pow2(n - 1)

Unit == Pow2(FracBits)

\* distance between neighbouring floats at magnitude q
RECURSIVE Spacing(_)
Spacing(q) == IF q < Pow2(Precision) THEN 1 ELSE 2 * Spacing(q \div 2)

\* the float nearest to num/den (num >= 0, den > 0)
RoundRat(num, den) ==
    LET q == num \div den
        s == Spacing(q)
        lo == (q \div s) * s
        hi == lo + s
    IN  IF 2 * num < (lo + hi) * den THEN lo
        ELSE IF 2 * num > (lo + hi) * den THEN hi
        ELSE IF (lo \div s) % 2 = 0 THEN lo ELSE hi

FloatOfInt(n) == RoundRat(n * Unit, 1)
FloatAdd(a, b) == RoundRat(a + b, 1)
FloatSub(a, b) == IF a >= b THEN RoundRat(a - b, 1) ELSE 0 - RoundRat(b - a, 1)
FloatMul(a, b) == RoundRat(a * b, Unit)
FloatDiv(a, b) == RoundRat(a * Unit, b)
\* int / int
IntTrueDiv(a, b) == RoundRat(a * Unit, b)

\* sum(xs[:n]): starts at the int 0 and adds from the left
RECURSIVE FloatSum(_, _)
FloatSum(xs, n) ==
    IF n = 0 THEN 0 ELSE FloatAdd(FloatSum(xs, n - 1), xs[n])

(***************************************************************************)
(* SRT output (subtitles.py).  "0" ... "9" are the digits, "comma", "minus" *)
(* and "gt" the characters of the timing line.                             *)
(***************************************************************************)
\* str(n) for n >= 0, padded with zeros to at least width digits (f"{n:0wd}")
RECURSIVE DecimalOf(_, _)
DecimalOf(n, width) ==
    LET digit == <<"0", "1", "2", "3", "4", "5", "6", "7", "8", "9">>[(n % 10) + 1]
    IN  IF n < 10 /\ width <= 1 THEN <<digit>>
        ELSE Append(DecimalOf(n \div 10, width - 1), digit)

\* _format_time(seconds) of the float that holds v units of 2^-FracBits s.
\* On such a value seconds // 3600, seconds % 3600, seconds % 60, seconds % 1
\* and (seconds % 1) * 1000 are exact in double precision, so the fields are
\* the integer quotients below.
_format_time(v) ==
    LET h == v \div (3600 * Unit)
        m == (v % (3600 * Unit)) \div (60 * Unit)
        sec == (v % (60 * Unit)) \div Unit
        ms == ((v % Unit) * 1000) \div Unit
    IN  DecimalOf(h, 2) \o <<"colon">> \o DecimalOf(m, 2) \o <<"colon">>
            \o DecimalOf(sec, 2) \o <<"comma">> \o DecimalOf(ms, 3)

\* a variant that writes no blank line after the text of an entry
EntryLinesNoBlank(entry) ==
    << DecimalOf(entry.index, 1),
       _format_time(entry.start_time)
           \o <<"sp", "minus", "minus", "gt", "sp">>
           \o _format_time(entry.end_time),
       entry.text >>

\* the four lines.append calls of one pass of the loop of write_srt
EntryLines(entry) ==
    << DecimalOf(entry.index, 1),
       _format_time(entry.start_time)
           \o <<"sp", "minus", "minus", "gt", "sp">>
           \o _format_time(entry.end_time),
       entry.text,
       <<>> >>

\* write_srt(entries, output_path): the text written, "\n".join(lines)
write_srt(entries) ==
    Join(Concat([i \in 1..Len(entries) |-> EntryLines(entries[i])]),
         <<"nl">>)

(***************************************************************************)
(* State.                                                                  *)
(***************************************************************************)
VARIABLES
    \* generate_subtitles(scenes, audio_paths): the arguments; audio[i] is
    \* AudioSegment.from_mp3(audio_paths[i]).duration_seconds
    scenes, audio,
    \* its locals: the number of (scene, audio_path) pairs consumed by the
    \* loop, the list being built, the next index, the running time
    consumed, entries, subtitle_index, cumulative_time,
    \* history: for every entry of entries, the scene it came from, that
    \* scene's audio duration and chunk count, and durations[i] of the chunk
    alloc,
    \* where generate_subtitles is: "idle", "loop" or "done"
    subs_pc,
    \* Scene(...): the narration_text argument, and the object once built
    \* (NoScene before)
    narration, built,
    \* split_into_scenes(text, max_duration): the text argument as passed
    \* (input_text), max_duration in seconds, the local text (seg_text,
    \* reassigned by strip and truncate_to_duration), segments, the list scenes
    \* (split_scenes), and where the function is: "idle", "start",
    \* "truncated", "segmented", "grouped", "merged", "done" or "error"
    \* (ValueError raised)
    input_text, max_duration, seg_text, segments, split_scenes, seg_pc,
    \* generate_video from the readings pass on: its scenes (pipe_scenes), the
    \* dictionary load_readings returned (its items in order), the texts
    \* handed to TTSClient.generate_speech so far (spoken), and where it is:
    \* "idle", "readings", "tts" or "done"
    pipe_scenes, readings, spoken, pipe_pc,
    \* parse_conte(text): the sections the document was written from
    \* (conte_sections, history), the text argument, the local scenes, the
    \* warnings.warn calls made so far, the ValueError raised (NoError before),
    \* and where it is: "idle", "parse", "done" or "error"
    conte_sections, conte_text, conte_scenes, conte_warnings, conte_error,
    conte_pc,
    \* generate_video: the suffix of input_file, the stripped text read from
    \* it, the parser chosen ("none" before), the calls of generate_image and
    \* copy_and_resize_library_image so far, the exception that ended it
    \* ("none" before), and where it is: "idle", "read", "scenes", "audio",
    \* "images", "done" or "error"
    video_suffix, video_text, video_parser, image_calls, video_error, video_pc,
    \* write_srt(entries, output_path): the text written, and where it is:
    \* "idle" or "done"
    srt_output, srt_pc,
    \* the re-split loop of _split_for_subtitles on one part: the part it was
    \* entered with, the local part, the chunks appended, the part and the
    \* result of the last call of _find_jp_break (<<>> and 0 before), and
    \* where it is: "idle", "loop" or "done"
    cut_piece, cut_rest, cut_chunks, cut_from, cut_pos, cut_pc,
    \* a call of a function wrapped by retry_on_rate_limit(max_retries,
    \* base_delay): the two arguments, the outcome of every call of func so
    \* far, the delays slept so far, how the wrapper ended ("pending"
    \* before; "returned" or "raised"), and where it is: "idle", "call",
    \* "done"
    retry_max, retry_base, retry_log, retry_waits, retry_result, retry_pc

subsVars ==
    <<scenes, audio, consumed, entries, subtitle_index, cumulative_time,
      alloc, subs_pc>>

chunkVars == <<narration, built>>

segVars == <<input_text, max_duration, seg_text, segments, split_scenes, seg_pc>>

pipeVars == <<pipe_scenes, readings, spoken, pipe_pc>>

conteVars ==
    <<conte_sections, conte_text, conte_scenes, conte_warnings, conte_error,
      conte_pc>>

videoVars ==
    <<video_suffix, video_text, video_parser, image_calls, video_error,
      video_pc>>

srtVars == <<srt_output, srt_pc>>

cutVars == <<cut_piece, cut_rest, cut_chunks, cut_from, cut_pos, cut_pc>>

retryVars ==
    <<retry_max, retry_base, retry_log, retry_waits, retry_result, retry_pc>>

vars ==
    <<subsVars, chunkVars, segVars, pipeVars, conteVars, videoVars, srtVars,
      cutVars, retryVars>>

\* a machine that takes no part in a specification stays idle
SubsIdle ==
    /\ scenes = <<>>
    /\ audio = <<>>
    /\ consumed = 0
    /\ entries = <<>>
    /\ alloc = <<>>
    /\ subtitle_index = 0
    /\ cumulative_time = 0
    /\ subs_pc = "idle"

NoScene == [index |-> -1]

ChunkIdle ==
    /\ narration = <<>>
    /\ built = NoScene

SegIdle ==
    /\ input_text = <<>>
    /\ max_duration = 0
    /\ seg_text = <<>>
    /\ segments = <<>>
    /\ split_scenes = <<>>
    /\ seg_pc = "idle"

PipeIdle ==
    /\ pipe_scenes = <<>>
    /\ readings = <<>>
    /\ spoken = <<>>
    /\ pipe_pc = "idle"

NoError == [kind |-> "none", scene |-> 0]

ConteIdle ==
    /\ conte_sections = <<>>
    /\ conte_text = <<>>
    /\ conte_scenes = <<>>
    /\ conte_warnings = <<>>
    /\ conte_error = NoError
    /\ conte_pc = "idle"

VideoIdle ==
    /\ video_suffix = ""
    /\ video_text = <<>>
    /\ video_parser = "none"
    /\ image_calls = <<>>
    /\ video_error = "none"
    /\ video_pc = "idle"

SrtIdle ==
    /\ srt_output = <<>>
    /\ srt_pc = "idle"

CutIdle ==
    /\ cut_piece = <<>>
    /\ cut_rest = <<>>
    /\ cut_chunks = <<>>
    /\ cut_from = <<>>
    /\ cut_pos = 0
    /\ cut_pc = "idle"

RetryIdle ==
    /\ retry_max = 0
    /\ retry_base = 0
    /\ retry_log = <<>>
    /\ retry_waits = <<>>
    /\ retry_result = "pending"
    /\ retry_pc = "idle"

(***************************************************************************)
(* Inputs drawn.                                                           *)
(***************************************************************************)
Rep(c, n) == [i \in 1..n |-> c]

\* narration texts of the scenes handed to generate_subtitles: an empty one
\* (words = []), one word, seven words (two groups), and a CJK text of
\* three chunks of 5, 7 and 4 characters
SubsNarrations ==
    { <<>>,
      <<"a", "a">>,
      Join(Rep(<<"a">>, 7), <<"sp">>),
      Rep("kan", 4) \o <<"ten">> \o Rep("ha", 6) \o <<"maru">> \o Rep("kan", 4) }

\* audio durations: 0, 0.5, 1.0, ... seconds
DurSet == { RoundRat(h * Unit, 2) : h \in 0..MaxHalves }

\* texts made of at most MaxRuns runs of one character each: an ideograph, a
\* break character, a punctuation mark, a space, a latin letter
RunChars == {"kan", "ha", "ten", "sp", "a"}
RunLens == {1, 3, 20}

RECURSIVE Expand(_)
Expand(runs) ==
    IF runs = <<>> THEN <<>>
    ELSE Rep(Head(runs)[1], Head(runs)[2]) \o Expand(Tail(runs))

RunTexts ==
    { Expand(runs) :
        runs \in UNION { [1..n -> RunChars \X RunLens] : n \in 0..MaxRuns } }

\* texts handed to split_into_scenes: at most MaxPieces sentences, each a
\* latin one of three words or a CJK one of ten characters, put together with
\* nothing, a space or a blank line between them; and whitespace alone
LatinSentence == <<"a", "sp", "a", "sp", "a", "dot">>
CjkSentence == Rep("kan", 9) \o <<"maru">>
SentenceKinds == {LatinSentence, CjkSentence}
Separators == {<<>>, <<"sp">>, <<"nl", "nl">>}

\* texts with one terminal mark past the middle of what a max_duration of two
\* seconds keeps: eight latin words with the mark on the fourth, sixteen
\* characters with the mark in eighth place
MarkedTexts ==
    { Join(Rep(<<"a">>, 3) \o << <<"a", m>> >> \o Rep(<<"a">>, 4), <<"sp">>) :
        m \in {"dot", "bang", "qm"} }
    \cup { Rep("kan", 7) \o <<m>> \o Rep("kan", 8) :
              m \in {"maru", "fw_bang", "fw_qm"} }

\* texts of at most MaxPieces sentences that can each stand alone as a
\* scene: ten latin words, or thirty CJK characters
LongLatinSentence ==
    Join(Rep(<<"a">>, 9) \o << <<"a", "dot">> >>, <<"sp">>)
LongCjkSentence == Rep("kan", 29) \o <<"maru">>

UniformTexts ==
    { Join(Rep(k, n), sep) :
        k \in {LongLatinSentence, LongCjkSentence},
        n \in 1..MaxPieces,
        sep \in Separators }

\* texts of three paragraphs in two languages: ten latin words, ten CJK
\* characters, and four or five latin words of ten letters each (the text as
\* a whole is not CJK-dominant, the second paragraph is); and the
\* same with the first two paragraphs exchanged
MixedTexts ==
    LET words == Join(Rep(<<"a">>, 10), <<"sp">>)
        ideographs == Rep("kan", 10)
        long(n) == Join(Rep(Rep("a", 10), n), <<"sp">>)
    IN  { Join(<<first, second, long(n)>>, <<"nl", "nl">>) :
            first \in {words, ideographs},
            second \in {words, ideographs},
            n \in {4, 5} }

SceneTexts ==
    { Join(pieces, sep) :
        pieces \in UNION { [1..n -> SentenceKinds] : n \in 0..MaxPieces },
        sep \in Separators }
    \cup {<<"sp">>, <<"nl", "isp">>}
    \cup MarkedTexts
    \cup UniformTexts
    \cup MixedTexts

\* parts handed to the re-split loop: ideographs, of 20, 21, 29 or MaxCutLen
\* characters, with a break character ("ha" or "su") in 8th, 9th, 12th or
\* 20th place followed by an ideograph, a prolonged-sound mark or "ru", and
\* possibly a second break character in 9th or 15th place
CutPieces ==
    { [i \in 1..len |->
          IF i = first THEN mark
          ELSE IF i = first + 1 THEN follow
          ELSE IF i = second THEN "ha"
          ELSE "kan"] :
        len \in {20, 21, 29, MaxCutLen},
        first \in {8, 9, 12, 20},
        mark \in {"ha", "su"},
        follow \in {"kan", "chouon", "ru"},
        second \in {0, 9, 15} }

\* exceptions the wrapped call can raise: the openai and google.genai errors
\* _is_retryable looks at, and one that is neither
RaisedErrors ==
    { [cls |-> "RateLimitError", status_code |-> 429, code |-> NoAttr],
      [cls |-> "APIStatusError", status_code |-> 500, code |-> NoAttr],
      [cls |-> "APIStatusError", status_code |-> 400, code |-> NoAttr],
      [cls |-> "APIError", status_code |-> 0, code |-> NoAttr],
      [cls |-> "APIConnectionError", status_code |-> NoAttr, code |-> NoAttr],
      [cls |-> "ServerError", status_code |-> NoAttr, code |-> 503],
      [cls |-> "ClientError", status_code |-> NoAttr, code |-> 429],
      [cls |-> "ClientError", status_code |-> NoAttr, code |-> 400],
      [cls |-> "GeminiAPIError", status_code |-> NoAttr, code |-> NoAttr],
      [cls |-> "ValueError", status_code |-> NoAttr, code |-> NoAttr] }

\* what a call that returns leaves in the log of attempts
Returned == [cls |-> "returned", status_code |-> NoAttr, code |-> NoAttr]

\* base_delay, in seconds: 1.0 and the default 5.0
BaseDelays == {1, 5}

\* max_duration: 0.0, 1.0, ... seconds, and the default 90.0
MaxDurations == 0..MaxSeconds \cup {90}

\* narrations of the scenes the pipeline holds at the readings pass
PipeNarrations ==
    { <<"kan", "kan", "ha">>,
      <<"a", "sp", "a">>,
      <<"kan", "ten", "kan", "kan">>,
      <<"ha">> }

\* readings.yml: absent or empty, one entry, two entries
ReadingDicts ==
    { <<>>,
      << <<<<"kan">>, <<"ka">>>> >>,
      << <<<<"kan", "kan">>, <<"ni">>>>, <<<<"kan">>, <<"ka">>>> >> }

\* the lines a storyboard section is written from
NarrLine == <<"lbl_narr", "colon", "sp", "a">>
NarrEmptyLine == <<"lbl_narr", "colon">>
StatLine == <<"lbl_stat", "fw_colon", "sp", "a">>
VisLine == <<"lbl_vis", "colon", "sp", "a", "sp", "a">>
ImgLine == <<"lbl_img", "colon", "sp", "a">>
BadImgLine == <<"lbl_img", "colon", "sp", "a", "bang">>
BoldLine == <<"bold", "a", "bold">>

\* the bodies of a scene section, each a sequence of lines
SceneBodies ==
    { <<NarrLine>>,
      <<NarrLine, StatLine, VisLine>>,
      <<NarrLine, ImgLine, VisLine>>,
      <<NarrLine, StatLine, BadImgLine>>,
      <<VisLine>>,
      <<NarrEmptyLine>>,
      <<NarrEmptyLine, BoldLine>> }

\* the header line of a section: "## Scene a", "##Scene a" or "## a"
HeaderLine(header) ==
    CASE header = "scene" -> <<"hash", "hash", "sp", "scene", "sp", "a">>
      [] header = "tight" -> <<"hash", "hash", "scene", "sp", "a">>
      [] header = "notes" -> <<"hash", "hash", "sp", "a">>

\* the sections of a storyboard: scene sections under either header, and a
\* closing section of notes
SectionKinds ==
    [header : {"scene", "tight"}, body : SceneBodies]
        \cup {[header |-> "notes", body |-> <<<<"a", "sp", "a", "dot">>>>]}

SectionText(section) ==
    HeaderLine(section.header) \o <<"nl">> \o Join(section.body, <<"nl">>)

\* the document written from a sequence of sections, one per paragraph
DocumentOf(sections) ==
    Join([k \in 1..Len(sections) |-> SectionText(sections[k])], <<"nl">>)

SectionLists == UNION {[1..n -> SectionKinds] : n \in 0..MaxSections}

\* the contents of input_file: storyboards of at most MaxSections sections,
\* prose, and files with nothing but whitespace
VideoFiles ==
    LET kinds == [header : {"scene"},
                  body : { <<NarrLine>>,
                           <<NarrLine, StatLine, BadImgLine>>,
                           <<NarrLine, ImgLine, VisLine>>,
                           <<VisLine>> }]
                     \cup {[header |-> "tight", body |-> <<NarrLine>>]}
        lists == UNION {[1..n -> kinds] : n \in 1..MaxSections}
    IN  {DocumentOf(list) : list \in lists}
            \cup { <<>>,
                   <<"sp", "nl">>,
                   LatinSentence \o <<"nl">>,
                   LatinSentence \o <<"nl", "nl">> \o CjkSentence }

(***************************************************************************)
(* generate_subtitles.                                                     *)
(***************************************************************************)
words_per_subtitle == 6

\* min_display = 1.0
min_display == FloatOfInt(1)

\* for i in range(0, len(words), words_per_subtitle):
\*     chunks.append(" ".join(words[i : i + words_per_subtitle]))
RECURSIVE GroupWords(_)
GroupWords(words) ==
    IF words = <<>> THEN <<>>
    ELSE <<Join(Take(words, words_per_subtitle), <<"sp">>)>>
         \o GroupWords(Drop(words, words_per_subtitle))

\* a variant that groups the words of every scene, CJK or not
ChunksAlwaysGrouped(scene) == GroupWords(scene.words)

\* chunks of a scene whose words list is not empty
Chunks(scene) ==
    IF _is_cjk_dominant(scene.narration_text)
    THEN scene.words
    ELSE GroupWords(scene.words)

RECURSIVE SumLen(_)
SumLen(chunks) ==
    IF chunks = <<>> THEN 0 ELSE Len(Head(chunks)) + SumLen(Tail(chunks))

\* a variant that shares scene_duration by character count with no floor
DurationsNoFloor(chunks, scene_duration) ==
    LET total_chars == SumLen(chunks)
        n_chunks == Len(chunks)
    IN  IF total_chars > 0
        THEN [i \in 1..n_chunks |->
                 FloatMul(IntTrueDiv(Len(chunks[i]), total_chars),
                          scene_duration)]
        ELSE [i \in 1..n_chunks |->
                 FloatDiv(scene_duration, FloatOfInt(n_chunks))]

\* durations, from the chunks and scene_duration
Durations(chunks, scene_duration) ==
    LET total_chars == SumLen(chunks)
        n_chunks == Len(chunks)
        guaranteed == FloatMul(min_display, FloatOfInt(n_chunks))
        remaining == FloatSub(scene_duration, guaranteed)
    IN  IF remaining > 0 /\ total_chars > 0
        THEN [i \in 1..n_chunks |->
                 FloatAdd(min_display,
                          FloatMul(IntTrueDiv(Len(chunks[i]), total_chars),
                                   remaining))]
        ELSE [i \in 1..n_chunks |->
                 FloatDiv(scene_duration, FloatOfInt(n_chunks))]

\* start = cumulative_time + sum(durations[:i]) (i counted from 0 in the code)
StartTime(cum, durations, i) == FloatAdd(cum, FloatSum(durations, i - 1))

\* end = start + durations[i]
EndTime(start, durations, i) == FloatAdd(start, durations[i])

\* a variant that advances by the chunk durations handed out
AdvanceTimeByChunks(cum, scene_duration, durations) ==
    IF durations = <<>>
    THEN FloatAdd(cum, scene_duration)
    ELSE FloatAdd(cum, FloatSum(durations, Len(durations)))

\* cumulative_time += scene_duration
AdvanceTime(cum, scene_duration, durations) == FloatAdd(cum, scene_duration)

\* subtitle_index = 1
FirstIndex == 1

\* a variant that restarts the numbering in every scene
EntryIndexPerScene(first, i) == FirstIndex + (i - 1)

\* the index of the i-th entry of a scene (subtitle_index += 1 after each)
EntryIndex(first, i) == first + (i - 1)

SubsInit ==
    /\ \E n \in 0..MaxScenes :
         \E texts \in [1..n -> SubsNarrations], durs \in [1..n -> DurSet] :
            /\ scenes = [i \in 1..n |-> Scene(i - 1, texts[i], <<>>, <<>>)]
            /\ audio = durs
    /\ consumed = 0
    /\ entries = <<>>
    /\ alloc = <<>>
    /\ subtitle_index = FirstIndex
    /\ cumulative_time = 0
    /\ subs_pc = "loop"
    /\ ChunkIdle
    /\ SegIdle
    /\ PipeIdle
    /\ ConteIdle
    /\ VideoIdle
    /\ SrtIdle
    /\ CutIdle
    /\ RetryIdle

\* zip(scenes, audio_paths) has another pair
SubsMore ==
    /\ consumed < Len(scenes)
    /\ consumed < Len(audio)

\* if not words: cumulative_time += scene_duration; continue
SkipScene ==
    /\ subs_pc = "loop"
    /\ SubsMore
    /\ scenes[consumed + 1].words = <<>>
    /\ cumulative_time' =
           AdvanceTime(cumulative_time, audio[consumed + 1], <<>>)
    /\ consumed' = consumed + 1
    /\ UNCHANGED <<scenes, audio, entries, alloc, subtitle_index, subs_pc>>
    /\ UNCHANGED <<cutVars, retryVars, chunkVars, segVars, pipeVars,
                   conteVars, videoVars, srtVars>>

\* one pass of the loop body for a scene with words
EmitScene ==
    /\ subs_pc = "loop"
    /\ SubsMore
    /\ scenes[consumed + 1].words # <<>>
    /\ LET scene == scenes[consumed + 1]
           scene_duration == audio[consumed + 1]
           chunks == Chunks(scene)
           n_chunks == Len(chunks)
           durations == Durations(chunks, scene_duration)
           start(i) == StartTime(cumulative_time, durations, i)
       IN  /\ entries' = entries \o
                 [i \in 1..n_chunks |->
                     [index |-> EntryIndex(subtitle_index, i),
                      start_time |-> start(i),
                      end_time |-> EndTime(start(i), durations, i),
                      text |-> chunks[i]]]
           /\ alloc' = alloc \o
                 [i \in 1..n_chunks |->
                     [scene |-> consumed,
                      scene_duration |-> scene_duration,
                      n_chunks |-> n_chunks,
                      pos |-> i,
                      duration |-> durations[i]]]
           /\ subtitle_index' = subtitle_index + n_chunks
           /\ cumulative_time' =
                  AdvanceTime(cumulative_time, scene_duration, durations)
    /\ consumed' = consumed + 1
    /\ UNCHANGED <<scenes, audio, subs_pc>>
    /\ UNCHANGED <<cutVars, retryVars, chunkVars, segVars, pipeVars,
                   conteVars, videoVars, srtVars>>

\* return entries
SubsReturn ==
    /\ subs_pc = "loop"
    /\ ~SubsMore
    /\ subs_pc' = "done"
    /\ UNCHANGED <<scenes, audio, consumed, entries, alloc, subtitle_index,
                   cumulative_time>>
    /\ UNCHANGED <<cutVars, retryVars, chunkVars, segVars, pipeVars,
                   conteVars, videoVars, srtVars>>

SubsNext == SkipScene \/ EmitScene \/ SubsReturn

SpecSubs == SubsInit /\ [][SubsNext]_vars

(***************************************************************************)
(* Scene construction: Scene(index=0, narration_text=narration,            *)
(* image_prompt=...) with tts_text and words left to __post_init__.        *)
(***************************************************************************)
ChunkInit ==
    /\ narration \in RunTexts
    /\ built = NoScene
    /\ SubsIdle
    /\ SegIdle
    /\ PipeIdle
    /\ ConteIdle
    /\ VideoIdle
    /\ SrtIdle
    /\ CutIdle
    /\ RetryIdle

Construct ==
    /\ built = NoScene
    /\ built' = Scene(0, narration, <<>>, <<>>)
    /\ UNCHANGED narration
    /\ UNCHANGED <<cutVars, retryVars, subsVars, segVars, pipeVars,
                   conteVars, videoVars, srtVars>>

ChunkNext == Construct

SpecChunks == ChunkInit /\ [][ChunkNext]_vars

(***************************************************************************)
(* The re-split loop of _split_for_subtitles on one part:                  *)
(* while len(part) > max_chars: ...; if part: chunks.append(part).         *)
(***************************************************************************)
CutInit ==
    /\ cut_piece \in CutPieces
    /\ cut_rest = cut_piece
    /\ cut_chunks = <<>>
    /\ cut_from = <<>>
    /\ cut_pos = 0
    /\ cut_pc = "loop"
    /\ SubsIdle
    /\ ChunkIdle
    /\ SegIdle
    /\ PipeIdle
    /\ ConteIdle
    /\ VideoIdle
    /\ SrtIdle
    /\ RetryIdle

\* one pass of the while loop: pos = _find_jp_break(part, max_chars);
\* chunks.append(part[:pos]); part = part[pos:]
CutOnce ==
    /\ cut_pc = "loop"
    /\ Len(cut_rest) > max_chars
    /\ LET pos == _find_jp_break(cut_rest, max_chars)
       IN  /\ cut_pos' = pos
           /\ cut_chunks' = Append(cut_chunks, Take(cut_rest, pos))
           /\ cut_rest' = Drop(cut_rest, pos)
    /\ cut_from' = cut_rest
    /\ UNCHANGED <<cut_piece, cut_pc>>
    /\ UNCHANGED <<subsVars, chunkVars, segVars, pipeVars, conteVars,
                   videoVars, srtVars, retryVars>>

\* the loop condition fails: if part: chunks.append(part)
CutEnd ==
    /\ cut_pc = "loop"
    /\ Len(cut_rest) <= max_chars
    /\ cut_chunks' =
           IF cut_rest # <<>> THEN Append(cut_chunks, cut_rest)
           ELSE cut_chunks
    /\ cut_pc' = "done"
    /\ UNCHANGED <<cut_piece, cut_rest, cut_from, cut_pos>>
    /\ UNCHANGED <<subsVars, chunkVars, segVars, pipeVars, conteVars,
                   videoVars, srtVars, retryVars>>

CutNext == CutOnce \/ CutEnd

SpecResplit == CutInit /\ [][CutNext]_vars

\* the loop runs on: no step of it is postponed for ever
SpecResplitLive == SpecResplit /\ WF_vars(CutNext)

(***************************************************************************)
(* split_into_scenes(input_text, max_duration).                            *)
(***************************************************************************)
SegInit ==
    /\ input_text \in SceneTexts
    /\ max_duration \in MaxDurations
    /\ seg_text = input_text
    /\ segments = <<>>
    /\ split_scenes = <<>>
    /\ seg_pc = "start"
    /\ SubsIdle
    /\ ChunkIdle
    /\ PipeIdle
    /\ ConteIdle
    /\ VideoIdle
    /\ SrtIdle
    /\ CutIdle
    /\ RetryIdle

\* text = text.strip(); if not text: raise ValueError
RejectEmpty ==
    /\ seg_pc = "start"
    /\ Strip(seg_text) = <<>>
    /\ seg_text' = Strip(seg_text)
    /\ seg_pc' = "error"
    /\ UNCHANGED <<input_text, max_duration, segments, split_scenes>>
    /\ UNCHANGED <<cutVars, retryVars, subsVars, chunkVars, pipeVars,
                   conteVars, videoVars, srtVars>>

\* text = text.strip(); text = truncate_to_duration(text, max_duration)
Truncate ==
    /\ seg_pc = "start"
    /\ Strip(seg_text) # <<>>
    /\ seg_text' = truncate_to_duration(Strip(seg_text), max_duration)
    /\ seg_pc' = "truncated"
    /\ UNCHANGED <<input_text, max_duration, segments, split_scenes>>
    /\ UNCHANGED <<cutVars, retryVars, subsVars, chunkVars, pipeVars,
                   conteVars, videoVars, srtVars>>

\* paragraphs, else sentences, else [text]
SplitSegments ==
    /\ seg_pc = "truncated"
    /\ segments' = SegmentsOf(seg_text)
    /\ seg_pc' = "segmented"
    /\ UNCHANGED <<input_text, max_duration, seg_text, split_scenes>>
    /\ UNCHANGED <<cutVars, retryVars, subsVars, chunkVars, pipeVars,
                   conteVars, videoVars, srtVars>>

\* if len(segments) > target_scenes: segments = merged
GroupSegments ==
    /\ seg_pc = "segmented"
    /\ segments' = GroupToTarget(segments)
    /\ seg_pc' = "grouped"
    /\ UNCHANGED <<input_text, max_duration, seg_text, split_scenes>>
    /\ UNCHANGED <<cutVars, retryVars, subsVars, chunkVars, pipeVars,
                   conteVars, videoVars, srtVars>>

\* segments = _merge_short_segments(segments)
MergeShort ==
    /\ seg_pc = "grouped"
    /\ segments' = _merge_short_segments(segments)
    /\ seg_pc' = "merged"
    /\ UNCHANGED <<input_text, max_duration, seg_text, split_scenes>>
    /\ UNCHANGED <<cutVars, retryVars, subsVars, chunkVars, pipeVars,
                   conteVars, videoVars, srtVars>>

\* for i, segment in enumerate(segments): scenes.append(Scene(...)); return
CreateScenes ==
    /\ seg_pc = "merged"
    /\ split_scenes' =
           [i \in 1..Len(segments) |-> Scene(i - 1, segments[i], <<>>, <<>>)]
    /\ seg_pc' = "done"
    /\ UNCHANGED <<input_text, max_duration, seg_text, segments>>
    /\ UNCHANGED <<cutVars, retryVars, subsVars, chunkVars, pipeVars,
                   conteVars, videoVars, srtVars>>

SegNext ==
    \/ RejectEmpty
    \/ Truncate
    \/ SplitSegments
    \/ GroupSegments
    \/ MergeShort
    \/ CreateScenes

SpecScenes == SegInit /\ [][SegNext]_vars

(***************************************************************************)
(* generate_video: the readings pass over the scenes, then                 *)
(* TTSClient.generate_all_scenes.                                          *)
(***************************************************************************)
PipeInit ==
    /\ \E n \in 0..MaxScenes :
         \E texts \in [1..n -> PipeNarrations] :
            pipe_scenes = [i \in 1..n |-> Scene(i - 1, texts[i], <<>>, <<>>)]
    /\ readings \in ReadingDicts
    /\ spoken = <<>>
    /\ pipe_pc = "readings"
    /\ SubsIdle
    /\ ChunkIdle
    /\ SegIdle
    /\ ConteIdle
    /\ VideoIdle
    /\ SrtIdle
    /\ CutIdle
    /\ RetryIdle

\* if readings: for scene in scenes: scene.tts_text = apply_readings(...)
ApplyReadings ==
    /\ pipe_pc = "readings"
    /\ pipe_scenes' =
           IF readings # <<>>
           THEN [i \in 1..Len(pipe_scenes) |->
                    [pipe_scenes[i] EXCEPT
                        !.tts_text =
                            apply_readings(pipe_scenes[i].narration_text,
                                           readings)]]
           ELSE pipe_scenes
    /\ pipe_pc' = "tts"
    /\ UNCHANGED <<readings, spoken>>
    /\ UNCHANGED <<cutVars, retryVars, subsVars, chunkVars, segVars,
                   conteVars, videoVars, srtVars>>

\* the text generate_all_scenes hands to generate_speech for a scene
SpeechInput(scene) == scene.narration_text

\* one pass of the loop of generate_all_scenes
GenerateSpeech ==
    /\ pipe_pc = "tts"
    /\ Len(spoken) < Len(pipe_scenes)
    /\ spoken' = Append(spoken, SpeechInput(pipe_scenes[Len(spoken) + 1]))
    /\ UNCHANGED <<pipe_scenes, readings, pipe_pc>>
    /\ UNCHANGED <<cutVars, retryVars, subsVars, chunkVars, segVars,
                   conteVars, videoVars, srtVars>>

\* return audio_paths
TtsReturn ==
    /\ pipe_pc = "tts"
    /\ Len(spoken) = Len(pipe_scenes)
    /\ pipe_pc' = "done"
    /\ UNCHANGED <<pipe_scenes, readings, spoken>>
    /\ UNCHANGED <<cutVars, retryVars, subsVars, chunkVars, segVars,
                   conteVars, videoVars, srtVars>>

PipeNext == ApplyReadings \/ GenerateSpeech \/ TtsReturn

SpecPipeline == PipeInit /\ [][PipeNext]_vars

(***************************************************************************)
(* parse_conte(text).                                                      *)
(***************************************************************************)
ConteInit ==
    /\ conte_sections \in SectionLists
    /\ conte_text = DocumentOf(conte_sections)
    /\ conte_scenes = <<>>
    /\ conte_warnings = <<>>
    /\ conte_error = NoError
    /\ conte_pc = "parse"
    /\ SubsIdle
    /\ ChunkIdle
    /\ SegIdle
    /\ PipeIdle
    /\ VideoIdle
    /\ SrtIdle
    /\ CutIdle
    /\ RetryIdle

\* if not matches: raise ValueError("No scenes found in conte markdown")
ConteNoScenes ==
    /\ conte_pc = "parse"
    /\ SceneHeaders(conte_text) = <<>>
    /\ conte_error' = [kind |-> "no_scenes", scene |-> 0]
    /\ conte_pc' = "error"
    /\ UNCHANGED <<conte_sections, conte_text, conte_scenes, conte_warnings>>
    /\ UNCHANGED <<cutVars, retryVars, subsVars, chunkVars, segVars, pipeVars, videoVars, srtVars>>

\* one pass of the loop that ends in _extract_required_narration raising
\* ValueError(f"Narration not found in scene {scene_number}")
ConteMissingNarration ==
    /\ conte_pc = "parse"
    /\ Len(conte_scenes) < Len(SceneHeaders(conte_text))
    /\ LET i == Len(conte_scenes)
           block == BlockOf(conte_text, SceneHeaders(conte_text)[i + 1])
       IN  /\ _extract_required_narration(block) = <<>>
           /\ conte_error' = [kind |-> "narration", scene |-> SceneNumber(i)]
    /\ conte_pc' = "error"
    /\ UNCHANGED <<conte_sections, conte_text, conte_scenes, conte_warnings>>
    /\ UNCHANGED <<cutVars, retryVars, subsVars, chunkVars, segVars, pipeVars, videoVars, srtVars>>

\* one pass of the loop that ends in scenes.append(Scene(index=i, ...))
ConteAppendScene ==
    /\ conte_pc = "parse"
    /\ Len(conte_scenes) < Len(SceneHeaders(conte_text))
    /\ LET i == Len(conte_scenes)
           block == BlockOf(conte_text, SceneHeaders(conte_text)[i + 1])
       IN  /\ _extract_required_narration(block) # <<>>
           /\ conte_warnings' = conte_warnings \o BlockWarnings(i, block)
           /\ conte_scenes' = Append(conte_scenes, ConteScene(i, block))
    /\ UNCHANGED <<conte_sections, conte_text, conte_error, conte_pc>>
    /\ UNCHANGED <<cutVars, retryVars, subsVars, chunkVars, segVars, pipeVars, videoVars, srtVars>>

\* return scenes
ConteReturn ==
    /\ conte_pc = "parse"
    /\ SceneHeaders(conte_text) # <<>>
    /\ Len(conte_scenes) = Len(SceneHeaders(conte_text))
    /\ conte_pc' = "done"
    /\ UNCHANGED <<conte_sections, conte_text, conte_scenes, conte_warnings,
                   conte_error>>
    /\ UNCHANGED <<cutVars, retryVars, subsVars, chunkVars, segVars, pipeVars, videoVars, srtVars>>

ConteNext ==
    ConteNoScenes \/ ConteMissingNarration \/ ConteAppendScene \/ ConteReturn

SpecConte == ConteInit /\ [][ConteNext]_vars

(***************************************************************************)
(* generate_subtitles followed by write_srt (pipeline.py, stage 4).        *)
(***************************************************************************)
\* generate_subtitles is entered as in SubsInit, with audio of 0.5 s or 2.5 s
SrtInit ==
    /\ \E n \in 0..MaxScenes :
         \E texts \in [1..n -> SubsNarrations],
            durs \in [1..n -> {RoundRat(h * Unit, 2) : h \in {1, 5}}] :
            /\ scenes = [i \in 1..n |-> Scene(i - 1, texts[i], <<>>, <<>>)]
            /\ audio = durs
    /\ consumed = 0
    /\ entries = <<>>
    /\ alloc = <<>>
    /\ subtitle_index = FirstIndex
    /\ cumulative_time = 0
    /\ subs_pc = "loop"
    /\ ChunkIdle
    /\ SegIdle
    /\ PipeIdle
    /\ ConteIdle
    /\ VideoIdle
    /\ SrtIdle
    /\ CutIdle
    /\ RetryIdle

\* srt_path = write_srt(subtitle_entries, temp_dir / "subtitles.srt")
WriteSrt ==
    /\ subs_pc = "done"
    /\ srt_pc = "idle"
    /\ srt_output' = write_srt(entries)
    /\ srt_pc' = "done"
    /\ UNCHANGED <<cutVars, retryVars, subsVars, chunkVars, segVars, pipeVars, conteVars,
                   videoVars>>

SrtNext == SkipScene \/ EmitScene \/ SubsReturn \/ WriteSrt

SpecSrt == SrtInit /\ [][SrtNext]_vars

(***************************************************************************)
(* generate_video(input_file, ...) with skip_confirm set, up to the end of *)
(* stage 3: read, parse or split, readings, speech, images.  The parsers   *)
(* and the speech stage are the actions above.                             *)
(***************************************************************************)
VideoInit ==
    /\ video_suffix \in { <<"dot", "m", "d">>, <<"dot", "M", "D">>,
                          <<"dot", "t", "x", "t">> }
    /\ video_text \in VideoFiles
    /\ video_parser = "none"
    /\ image_calls = <<>>
    /\ video_error = "none"
    /\ video_pc = "read"
    /\ pipe_scenes = <<>>
    /\ readings \in ReadingDicts
    /\ spoken = <<>>
    /\ pipe_pc = "idle"
    /\ SubsIdle
    /\ ChunkIdle
    /\ SegIdle
    /\ ConteIdle
    /\ SrtIdle
    /\ CutIdle
    /\ RetryIdle

\* text = input_file.read_text().strip(); if not text: raise ClickException
VideoEmpty ==
    /\ video_pc = "read"
    /\ Strip(video_text) = <<>>
    /\ video_text' = Strip(video_text)
    /\ video_error' = "empty"
    /\ video_pc' = "error"
    /\ UNCHANGED <<video_suffix, video_parser, image_calls>>
    /\ UNCHANGED <<cutVars, retryVars, subsVars, chunkVars, segVars, pipeVars, conteVars, srtVars>>

\* the branch of stage 1 that calls parse_conte(text, ...)
VideoParseConte ==
    /\ video_pc = "read"
    /\ Strip(video_text) # <<>>
    /\ UsesConte(video_suffix, Strip(video_text))
    /\ video_text' = Strip(video_text)
    /\ video_parser' = "parse_conte"
    /\ video_pc' = "scenes"
    /\ conte_text' = Strip(video_text)
    /\ conte_pc' = "parse"
    /\ UNCHANGED <<conte_sections, conte_scenes, conte_warnings, conte_error>>
    /\ UNCHANGED <<video_suffix, image_calls, video_error>>
    /\ UNCHANGED <<cutVars, retryVars, subsVars, chunkVars, segVars, pipeVars, srtVars>>

\* the branch of stage 1 that calls split_into_scenes(text, max_duration=
\* config.video.max_duration, ...), max_duration at its default of 90 s
VideoSplit ==
    /\ video_pc = "read"
    /\ Strip(video_text) # <<>>
    /\ ~UsesConte(video_suffix, Strip(video_text))
    /\ video_text' = Strip(video_text)
    /\ video_parser' = "split_into_scenes"
    /\ video_pc' = "scenes"
    /\ input_text' = Strip(video_text)
    /\ seg_text' = Strip(video_text)
    /\ max_duration' = 90
    /\ seg_pc' = "start"
    /\ UNCHANGED <<segments, split_scenes>>
    /\ UNCHANGED <<video_suffix, image_calls, video_error>>
    /\ UNCHANGED <<cutVars, retryVars, subsVars, chunkVars, pipeVars, conteVars, srtVars>>

\* the ValueError of parse_conte leaves generate_video
VideoParseFailed ==
    /\ video_pc = "scenes"
    /\ conte_pc = "error"
    /\ video_error' = conte_error.kind
    /\ video_pc' = "error"
    /\ UNCHANGED <<video_suffix, video_text, video_parser, image_calls>>
    /\ UNCHANGED <<cutVars, retryVars, subsVars, chunkVars, segVars, pipeVars, conteVars, srtVars>>

\* scenes = parse_conte(...) or scenes = split_into_scenes(...) has returned;
\* a Scene of split_into_scenes has no statistic and no library image
VideoScenes ==
    /\ video_pc = "scenes"
    /\ conte_pc = "done" \/ seg_pc = "done"
    /\ pipe_scenes' =
           IF conte_pc = "done" THEN conte_scenes
           ELSE [i \in 1..Len(split_scenes) |->
                    [index |-> split_scenes[i].index,
                     narration_text |-> split_scenes[i].narration_text,
                     tts_text |-> split_scenes[i].tts_text,
                     words |-> split_scenes[i].words,
                     visual_text |-> <<>>,
                     stat_overlay |-> <<>>,
                     library_image |-> <<>>]]
    /\ pipe_pc' = "readings"
    /\ video_pc' = "audio"
    /\ UNCHANGED <<readings, spoken>>
    /\ UNCHANGED <<video_suffix, video_text, video_parser, image_calls,
                   video_error>>
    /\ UNCHANGED <<cutVars, retryVars, subsVars, chunkVars, segVars, conteVars, srtVars>>

\* one pass of the loop of ImageGenerator.generate_all_scenes that ends in
\* image_paths.append: copy_and_resize_library_image or generate_image
VideoImage ==
    /\ video_pc = "audio"
    /\ pipe_pc = "done"
    /\ Len(image_calls) < Len(pipe_scenes)
    /\ LET scene == pipe_scenes[Len(image_calls) + 1]
       IN  /\ scene.library_image # <<>> => validate_slug(scene.library_image)
           /\ image_calls' =
                  Append(image_calls,
                         [scene |-> scene.index,
                          library_image |-> scene.library_image])
    /\ UNCHANGED <<video_suffix, video_text, video_parser, video_error,
                   video_pc>>
    /\ UNCHANGED <<cutVars, retryVars, subsVars, chunkVars, segVars, pipeVars, conteVars, srtVars>>

\* one pass of that loop in which resolve_image_path raises: ValueError from
\* validate_slug, or FileNotFoundError when the library holds no such image
VideoImageRejected ==
    /\ video_pc = "audio"
    /\ pipe_pc = "done"
    /\ Len(image_calls) < Len(pipe_scenes)
    /\ LET scene == pipe_scenes[Len(image_calls) + 1]
       IN  /\ scene.library_image # <<>>
           /\ video_error' =
                  IF validate_slug(scene.library_image)
                  THEN "image_not_found"
                  ELSE "invalid_slug"
    /\ video_pc' = "error"
    /\ UNCHANGED <<video_suffix, video_text, video_parser, image_calls>>
    /\ UNCHANGED <<cutVars, retryVars, subsVars, chunkVars, segVars, pipeVars, conteVars, srtVars>>

\* return image_paths
VideoImagesReturn ==
    /\ video_pc = "audio"
    /\ pipe_pc = "done"
    /\ Len(image_calls) = Len(pipe_scenes)
    /\ video_pc' = "done"
    /\ UNCHANGED <<video_suffix, video_text, video_parser, image_calls,
                   video_error>>
    /\ UNCHANGED <<cutVars, retryVars, subsVars, chunkVars, segVars, pipeVars, conteVars, srtVars>>

VideoNext ==
    \/ VideoEmpty
    \/ VideoParseConte
    \/ VideoSplit
    \/ ConteNoScenes
    \/ ConteMissingNarration
    \/ ConteAppendScene
    \/ ConteReturn
    \/ Truncate
    \/ SplitSegments
    \/ GroupSegments
    \/ MergeShort
    \/ CreateScenes
    \/ VideoParseFailed
    \/ VideoScenes
    \/ ApplyReadings
    \/ GenerateSpeech
    \/ TtsReturn
    \/ VideoImage
    \/ VideoImageRejected
    \/ VideoImagesReturn

SpecVideo == VideoInit /\ [][VideoNext]_vars

(***************************************************************************)
(* retry_on_rate_limit(max_retries, base_delay): the wrapper around one    *)
(* call.  retry_log holds the outcome of every attempt made, retry_waits   *)
(* the delays slept, retry_result what the wrapper returned or raised.     *)
(***************************************************************************)
RetryInit ==
    /\ retry_max \in 0..MaxRetries
    /\ retry_base \in BaseDelays
    /\ retry_log = <<>>
    /\ retry_waits = <<>>
    /\ retry_result = "pending"
    /\ retry_pc = "call"
    /\ SubsIdle
    /\ ChunkIdle
    /\ SegIdle
    /\ PipeIdle
    /\ ConteIdle
    /\ VideoIdle
    /\ SrtIdle
    /\ CutIdle

\* the loop variable of "for attempt in range(max_retries + 1)"
Attempt == Len(retry_log)

\* return func(*args, **kwargs)
RetryReturn ==
    /\ retry_pc = "call"
    /\ retry_log' = Append(retry_log, Returned)
    /\ retry_result' = "returned"
    /\ retry_pc' = "done"
    /\ UNCHANGED <<retry_max, retry_base, retry_waits>>
    /\ UNCHANGED <<subsVars, chunkVars, segVars, pipeVars, conteVars,
                   videoVars, srtVars, cutVars>>

\* except Exception as e: if attempt == max_retries: raise
RetryRaiseLast ==
    /\ retry_pc = "call"
    /\ Attempt = retry_max
    /\ \E exc \in RaisedErrors :
          /\ retry_log' = Append(retry_log, exc)
          /\ retry_result' = exc.cls
    /\ retry_pc' = "done"
    /\ UNCHANGED <<retry_max, retry_base, retry_waits>>
    /\ UNCHANGED <<subsVars, chunkVars, segVars, pipeVars, conteVars,
                   videoVars, srtVars, cutVars>>

\* if _is_retryable(e): delay = base_delay * (2**attempt); time.sleep(delay)
RetryWait ==
    /\ retry_pc = "call"
    /\ Attempt # retry_max
    /\ \E exc \in RaisedErrors :
          /\ _is_retryable(exc) = "True"
          /\ retry_log' = Append(retry_log, exc)
    /\ retry_waits' = Append(retry_waits, retry_base * Pow2(Attempt))
    /\ UNCHANGED <<retry_max, retry_base, retry_result, retry_pc>>
    /\ UNCHANGED <<subsVars, chunkVars, segVars, pipeVars, conteVars,
                   videoVars, srtVars, cutVars>>

\* else: raise
RetryRaiseOther ==
    /\ retry_pc = "call"
    /\ Attempt # retry_max
    /\ \E exc \in RaisedErrors :
          /\ _is_retryable(exc) = "False"
          /\ retry_log' = Append(retry_log, exc)
          /\ retry_result' = exc.cls
    /\ retry_pc' = "done"
    /\ UNCHANGED <<retry_max, retry_base, retry_waits>>
    /\ UNCHANGED <<subsVars, chunkVars, segVars, pipeVars, conteVars,
                   videoVars, srtVars, cutVars>>

\* exc.status_code raises AttributeError inside _is_retryable: it leaves the
\* except block and the wrapper
RetryCheckRaises ==
    /\ retry_pc = "call"
    /\ Attempt # retry_max
    /\ \E exc \in RaisedErrors :
          /\ _is_retryable(exc) = "AttributeError"
          /\ retry_log' = Append(retry_log, exc)
    /\ retry_result' = "AttributeError"
    /\ retry_pc' = "done"
    /\ UNCHANGED <<retry_max, retry_base, retry_waits>>
    /\ UNCHANGED <<subsVars, chunkVars, segVars, pipeVars, conteVars,
                   videoVars, srtVars, cutVars>>

RetryNext ==
    \/ RetryReturn
    \/ RetryRaiseLast
    \/ RetryWait
    \/ RetryRaiseOther
    \/ RetryCheckRaises

SpecRetry == RetryInit /\ [][RetryNext]_vars

(***************************************************************************)
(* Properties of generate_subtitles.                                       *)
(***************************************************************************)
\* entries j-1 and j exist and come from the same scene
SameScene(j) == alloc[j].scene = alloc[j - 1].scene

\* n x 1.0 <= scene_duration for the scene of entry j
FloorFits(j) == alloc[j].scene_duration >= FloatOfInt(alloc[j].n_chunks)

\* durations of the scene whose last entry is entry j
SceneDurations(j) ==
    [i \in 1..alloc[j].n_chunks |-> alloc[j - alloc[j].n_chunks + i].duration]

\* C2: the first entry of every scene that emits entries starts exactly at
\* the sum (added from the left, as floats) of the audio durations of all
\* earlier scenes, skipped ones included, whatever chunk durations the
\* earlier scenes handed out.
C2_SceneStartIsAudioSum ==
    \A j \in 1..Len(entries) :
        alloc[j].pos = 1 =>
            entries[j].start_time = FloatSum(audio, alloc[j].scene)

\* a later scene starts at a time that differs from the end of the entry
\* before it: the chunk durations of the earlier scene drifted
C2_Witness ==
    \E j \in 2..Len(entries) :
        /\ alloc[j].pos = 1
        /\ ~SameScene(j)
        /\ entries[j].start_time # entries[j - 1].end_time
        /\ entries[j].start_time = FloatSum(audio, alloc[j].scene)

\* C3: entries are time-ordered and non-overlapping in output order: every
\* entry starts at or after the end of the entry before it (across scene
\* boundaries too), and within a scene starts exactly at that end.
C3_NonOverlapping ==
    \A j \in 2..Len(entries) :
        /\ entries[j].start_time >= entries[j - 1].end_time
        /\ SameScene(j) => entries[j].start_time = entries[j - 1].end_time

\* C4 as claimed: in a scene whose audio duration is at least n x 1.0, every
\* entry has end_time - start_time >= 1.0.
C4_DisplayedAtLeastFloor ==
    \A j \in 1..Len(entries) :
        FloorFits(j) =>
            FloatSub(entries[j].end_time, entries[j].start_time) >= min_display

\* C4 as amended: in a scene whose audio duration is at least n x 1.0, the
\* duration allotted to every chunk (durations[i], the amount added to
\* start_time to obtain end_time) is at least 1.0.
C4_AllottedAtLeastFloor ==
    \A j \in 1..Len(entries) :
        FloorFits(j) => alloc[j].duration >= min_display

\* a scene of several chunks longer than its floor, and one exactly at it
C4_Witness ==
    /\ \E j \in 1..Len(entries) :
          /\ alloc[j].n_chunks >= 2
          /\ alloc[j].scene_duration > FloatOfInt(alloc[j].n_chunks)
          /\ alloc[j].duration > min_display
    /\ \E j \in 1..Len(entries) :
          /\ alloc[j].n_chunks >= 2
          /\ alloc[j].scene_duration = FloatOfInt(alloc[j].n_chunks)
          /\ alloc[j].duration = min_display

\* C5: in a scene whose audio duration is below n x 1.0, every entry gets
\* exactly audio_duration / n, these durations are positive, and they sum
\* to the audio duration.
C5_DegenerateShares ==
    \A j \in 1..Len(entries) :
        ~FloorFits(j) =>
            /\ alloc[j].duration =
                   FloatDiv(alloc[j].scene_duration,
                            FloatOfInt(alloc[j].n_chunks))
            /\ alloc[j].duration > 0
            /\ alloc[j].pos = alloc[j].n_chunks =>
                   FloatSum(SceneDurations(j), alloc[j].n_chunks)
                       = alloc[j].scene_duration

\* C6: every entry has start_time < end_time (all audio durations >= 0).
C6_StartBeforeEnd ==
    \A j \in 1..Len(entries) :
        entries[j].start_time < entries[j].end_time

\* C7: the index fields are 1, 2, 3, ... in output order across all scenes;
\* a scene skipped for its empty words list consumes none.
C7_IndicesSequential ==
    \A j \in 1..Len(entries) : entries[j].index = j

\* entries of a scene that follows a skipped one
C7_Witness ==
    /\ subs_pc = "done"
    /\ Len(scenes) >= 2
    /\ scenes[1].words = <<>>
    /\ Len(entries) >= 2
    /\ alloc[1].scene = 1

(***************************************************************************)
(* Properties of the subtitle chunker and of Scene construction.           *)
(***************************************************************************)
HasNonWhitespace(text) == \E i \in 1..Len(text) : text[i] \notin Whitespace

\* C8: for a CJK-dominant text every chunk of _split_for_subtitles is
\* non-empty and at most 22 characters long.
C8_CjkChunkLength ==
    (built # NoScene /\ _is_cjk_dominant(narration)) =>
        \A i \in 1..Len(built.words) :
            Len(built.words[i]) >= 1 /\ Len(built.words[i]) <= 22

\* a piece longer than 20 characters was cut and a short chunk was folded
\* into its predecessor up to the ceiling
C8_Witness ==
    /\ built # NoScene
    /\ _is_cjk_dominant(narration)
    /\ Len(RemoveWhitespace(narration)) > 22
    /\ Len(built.words) >= 2
    /\ \E i \in 1..Len(built.words) : Len(built.words[i]) = 22

\* C9 as claimed: a Scene built from a non-empty narration_text has a
\* non-empty words list.
C9_WordsNonEmpty ==
    (built # NoScene /\ narration # <<>>) => built.words # <<>>

\* C9 as amended: a Scene built from a narration_text holding at least one
\* non-whitespace character has a non-empty words list.
C9_WordsNonEmptyIfVisible ==
    (built # NoScene /\ HasNonWhitespace(narration)) => built.words # <<>>

\* a CJK-dominant narration with whitespace in it, chunked
C9_Witness ==
    /\ built # NoScene
    /\ _is_cjk_dominant(narration)
    /\ \E i \in 1..Len(narration) : narration[i] \in Whitespace
    /\ built.words # <<>>

\* C26: in the chunks of a CJK-dominant text, every chunk after the first
\* that is at most 3 characters long follows a chunk with which it would
\* exceed 22 characters.
C26_NoOrphanThatFits ==
    (built # NoScene /\ _is_cjk_dominant(narration)) =>
        \A i \in 2..Len(built.words) :
            Len(built.words[i]) <= 3 =>
                Len(built.words[i - 1]) + Len(built.words[i]) > 22

\* a short chunk was left alone behind a chunk too long to take it
C26_Witness ==
    /\ built # NoScene
    /\ _is_cjk_dominant(narration)
    /\ \E i \in 2..Len(built.words) :
          /\ Len(built.words[i]) <= 3
          /\ Len(built.words[i - 1]) >= 20

\* C28: the chunks of a CJK-dominant text, concatenated in order, are the
\* text with all whitespace removed; the words of any other text are its
\* whitespace-delimited words, in order.
C28_ChunkingLosesNothing ==
    built # NoScene =>
        IF _is_cjk_dominant(narration)
        THEN Concat(built.words) = RemoveWhitespace(narration)
        ELSE LET starts == { k \in 1..Len(narration) :
                               /\ narration[k] \notin Whitespace
                               /\ (k = 1 \/ narration[k - 1] \in Whitespace) }
                 at == SortedSeq(starts)
             IN  /\ Len(built.words) = Cardinality(starts)
                 /\ \A i \in 1..Len(built.words) :
                      LET w == built.words[i]
                          stop == at[i] + Len(w)
                      IN  /\ w # <<>>
                          /\ \A k \in 1..Len(w) : w[k] \notin Whitespace
                          /\ stop - 1 <= Len(narration)
                          /\ w = SubSeq(narration, at[i], stop - 1)
                          /\ stop <= Len(narration) =>
                                 narration[stop] \in Whitespace

\* a CJK-dominant text with whitespace in it that was cut, with a short chunk
\* folded into its predecessor
C28_Witness ==
    /\ built # NoScene
    /\ _is_cjk_dominant(narration)
    /\ \E i \in 1..Len(narration) : narration[i] \in Whitespace
    /\ Len(built.words) >= 2
    /\ \E i \in 1..Len(built.words) : Len(built.words[i]) > max_chars

(***************************************************************************)
(* Properties of split_into_scenes.                                        *)
(***************************************************************************)
\* C1: for every text that is non-empty after trimming and every
\* max_duration, split_into_scenes returns a non-empty list in which the
\* scene at position i has index i (from zero), a non-empty narration_text
\* and a non-empty words list.
C1_ScenesWellFormed ==
    seg_pc = "done" =>
        /\ Len(split_scenes) >= 1
        /\ \A i \in 1..Len(split_scenes) :
              /\ split_scenes[i].index = i - 1
              /\ split_scenes[i].narration_text # <<>>
              /\ split_scenes[i].words # <<>>

\* sum(estimate_duration(scene.narration_text) for scene in scenes)
RECURSIVE TotalEstimate(_)
TotalEstimate(scs) ==
    IF scs = <<>> THEN 0
    ELSE estimate_duration(Head(scs).narration_text) + TotalEstimate(Tail(scs))

\* the text had to be truncated: its estimate exceeds max_duration
Truncated == estimate_duration(Strip(input_text)) > Seconds(max_duration)

\* C11: for every input whose estimated duration exceeds max_duration, the
\* estimates of the narration texts of the returned scenes sum to at most the
\* estimate of the original input text, each estimate taken with the language
\* classification of its own text.
C11_TotalEstimateBounded ==
    (seg_pc = "done" /\ Truncated) =>
        TotalEstimate(split_scenes) <= estimate_duration(Strip(input_text))

\* C12: when truncate_to_duration has to truncate, it looks for the last
\* terminal mark of U+3002, U+FF01, U+FF1F, ".", "!", "?" in the sliced text;
\* if that mark lies past the midpoint of the slice the result ends with it,
\* otherwise the result is the raw slice.
C12_CutAtLastTerminalMark ==
    (seg_pc \in {"truncated", "segmented", "grouped", "merged", "done"}
         /\ Truncated) =>
        LET sliced == SliceToDuration(Strip(input_text), max_duration)
            marks == {"maru", "fw_bang", "fw_qm", "dot", "bang", "qm"}
            last == LastIn(sliced, marks)
        IN  seg_text = IF last - 1 > Len(sliced) \div 2
                       THEN Take(sliced, last)
                       ELSE sliced

\* C13: split_into_scenes returns between 1 and 6 scenes, whatever the
\* number of paragraphs or sentences found.
C13_AtMostSixScenes ==
    seg_pc = "done" => (Len(split_scenes) >= 1 /\ Len(split_scenes) <= 6)

\* more than six segments were found and six scenes are returned
C13_Witness ==
    /\ seg_pc = "done"
    /\ Len(SegmentsOf(seg_text)) > 6
    /\ Len(split_scenes) = 6

\* C14: for every input that is empty or whitespace-only, split_into_scenes
\* fails with the ValueError and produces no scenes.
C14_EmptyInputRejected ==
    (~HasNonWhitespace(input_text) /\ seg_pc \notin {"idle", "start"}) =>
        (seg_pc = "error" /\ split_scenes = <<>>)

\* a text of whitespace characters was rejected
C14_Witness ==
    /\ seg_pc = "error"
    /\ input_text # <<>>
    /\ ~HasNonWhitespace(input_text)

\* C21: when more than six segments were found, the grouping step leaves
\* exactly six segments; the g-th one is the newline-joined run of the
\* original segments floor((g-1)n/6)+1 .. floor(g*n/6) (counted from 1), every
\* run is non-empty, and the six runs read in order are the n segments.
C21_SixContiguousGroups ==
    seg_pc = "grouped" =>
        LET segs == SegmentsOf(seg_text)
            n == Len(segs)
        IN  n > 6 =>
                /\ Len(segments) = 6
                /\ \A g \in 1..6 :
                       LET lo == ((g - 1) * n) \div 6
                           hi == (g * n) \div 6
                       IN  /\ lo < hi
                           /\ segments[g] =
                                  Join(SubSeq(segs, lo + 1, hi), <<"nl">>)
                /\ Join(segments, <<"nl">>) = Join(segs, <<"nl">>)

\* seven segments were grouped into six
C21_Witness ==
    /\ seg_pc = "grouped"
    /\ Len(SegmentsOf(seg_text)) = 7
    /\ Len(segments) = 6
    /\ segments[6] # SegmentsOf(seg_text)[7]

\* C22: the merge-short pass measures every accumulating segment with the
\* one classification of the concatenation of all segments (characters if
\* CJK-dominant, words otherwise) against the threshold of that same
\* classification, and appends the next segment exactly when the measure is
\* below the threshold; a short last segment is folded into its predecessor.
C22_OneClassification ==
    seg_pc = "merged" =>
        LET segs == GroupToTarget(SegmentsOf(seg_text))
            cjk == _is_cjk_dominant(Concat(segs))
            min_size == IF cjk THEN 30 ELSE 10
            length(x) == IF cjk THEN Len(Strip(x)) ELSE Len(Split(x))
            RECURSIVE Walk(_, _)
            Walk(merged, k) ==
                IF k > Len(segs) THEN merged
                ELSE IF length(merged[Len(merged)]) < min_size
                     THEN Walk([merged EXCEPT ![Len(merged)] =
                                    @ \o <<"nl">> \o segs[k]], k + 1)
                     ELSE Walk(Append(merged, segs[k]), k + 1)
            walked == Walk(<<segs[1]>>, 2)
            m == Len(walked)
        IN  segments =
                IF m > 1 /\ length(walked[m]) < min_size
                THEN [SubSeq(walked, 1, m - 1) EXCEPT
                         ![m - 1] = @ \o <<"nl">> \o walked[m]]
                ELSE walked

\* C23: after the merge-short pass either one segment is left or every
\* segment left, the last one included, has a language-aware length
\* (_segment_length) of at least the threshold of the pass.
C23_AllAtLeastThreshold ==
    seg_pc = "merged" =>
        LET min_size ==
                _min_segment_size(Concat(GroupToTarget(SegmentsOf(seg_text))))
        IN  \/ Len(segments) = 1
            \/ \A k \in 1..Len(segments) :
                   _segment_length(segments[k]) >= min_size

\* joined is whole cut into consecutive groups, each group joined by "\n"
RECURSIVE IsGrouping(_, _)
IsGrouping(joined, whole) ==
    IF joined = <<>> THEN whole = <<>>
    ELSE \E k \in 1..Len(whole) :
            /\ Head(joined) = Join(SubSeq(whole, 1, k), <<"nl">>)
            /\ IsGrouping(Tail(joined), Drop(whole, k))

\* C27: the narration_text of the scenes returned, concatenated in scene
\* order, has the non-whitespace content of the trimmed and truncated text;
\* after the grouping step and after the merge-short step the segments are
\* the original segments joined in consecutive groups, none dropped or
\* repeated.
C27_NoNarrationLost ==
    /\ seg_pc = "done" =>
          RemoveWhitespace(Concat([i \in 1..Len(split_scenes) |->
                                      split_scenes[i].narration_text]))
              = RemoveWhitespace(seg_text)
    /\ seg_pc \in {"grouped", "merged", "done"} =>
          IsGrouping(segments, SegmentsOf(seg_text))

\* scenes returned for a text of more than six segments, grouped into six and
\* then folded into fewer
C27_Witness ==
    /\ seg_pc = "done"
    /\ Len(SegmentsOf(seg_text)) > 6
    /\ Len(segments) < 6

(***************************************************************************)
(* Property of the entry texts of generate_subtitles.                      *)
(***************************************************************************)
\* the texts of the entries emitted for the scene of index s, in order
EntryTextsOf(s) ==
    LET idx == { j \in 1..Len(alloc) : alloc[j].scene = s }
    IN  IF idx = {} THEN <<>>
        ELSE [k \in 1..Cardinality(idx) |-> entries[SetMin(idx) + k - 1].text]

\* the k-th group of at most g consecutive elements of ws
GroupAt(ws, g, k) ==
    SubSeq(ws, g * (k - 1) + 1, SetMin({g * k, Len(ws)}))

\* C25: for every scene consumed, a CJK-dominant scene has one entry per
\* element of scene.words with that element as text, in order; any other
\* scene with w words has ceil(w/6) entries, the k-th being the k-th group of
\* 6 consecutive words joined by single spaces, and the words of its entries
\* read in order are scene.words.
C25_EntryTexts ==
    \A s \in 0..(consumed - 1) :
        LET scene == scenes[s + 1]
            ws == scene.words
            txts == EntryTextsOf(s)
            idx == { j \in 1..Len(alloc) : alloc[j].scene = s }
        IN  /\ idx # {} => idx = SetMin(idx)..SetMax(idx)
            /\ IF _is_cjk_dominant(scene.narration_text)
               THEN txts = ws
               ELSE /\ Len(txts) = (Len(ws) + 5) \div 6
                    /\ \A k \in 1..Len(txts) :
                          txts[k] = Join(GroupAt(ws, 6, k), <<"sp">>)
                    /\ Concat([k \in 1..Len(txts) |-> Split(txts[k])]) = ws

\* all scenes consumed: a CJK-dominant scene with three entries and another
\* scene whose seven words gave two entries
C25_Witness ==
    /\ subs_pc = "done"
    /\ \E s \in 0..(consumed - 1) :
          /\ _is_cjk_dominant(scenes[s + 1].narration_text)
          /\ Len(EntryTextsOf(s)) = 3
    /\ \E s \in 0..(consumed - 1) :
          /\ ~_is_cjk_dominant(scenes[s + 1].narration_text)
          /\ Len(scenes[s + 1].words) = 7
          /\ Len(EntryTextsOf(s)) = 2

(***************************************************************************)
(* Properties of _find_jp_break and of the re-split loop.                  *)
(***************************************************************************)
\* a cut has been made: cut_from is the part it was made in, cut_pos the
\* position _find_jp_break returned for it
CutMade == cut_chunks # <<>> /\ cut_from # <<>>

\* position i of part t may be cut at: the character before it is a
\* natural-break character, the character at it may start a chunk, and the
\* two are not a tightly bound pair
MayCutAt(t, i) ==
    /\ t[i] \in _JP_BREAK_CHARS
    /\ i < Len(t) => t[i + 1] \notin _NO_BREAK_BEFORE
    /\ i < Len(t) => <<t[i], t[i + 1]>> \notin _NO_BREAK_PAIRS

\* the rightmost position of lo..hi that may be cut at, or hi if there is none
RightmostCut(t, lo, hi) ==
    LET ok == { i \in lo..hi : MayCutAt(t, i) }
    IN  IF ok = {} THEN hi ELSE SetMax(ok)

\* max(2 * max_pos / 5, 4) for max_pos = max_chars
WindowFloor == SetMax({(2 * max_chars) \div 5, 4})

\* C24 as stated: _find_jp_break returns the rightmost position of the window
\* from max_pos down to max(2*max_pos/5, 4), both ends included, that may be
\* cut at, and max_pos when the window has none.
C24_WindowBothEnds ==
    CutMade => cut_pos = RightmostCut(cut_from, WindowFloor, max_chars)

\* C24 amended: the window runs from max_pos down to max(2*max_pos/5, 4) + 1;
\* the lower end max(2*max_pos/5, 4) itself is never tried.
C24_WindowAboveFloor ==
    CutMade => cut_pos = RightmostCut(cut_from, WindowFloor + 1, max_chars)

\* a cut inside the window, made below a natural-break character that could
\* not be cut at
C24_Witness ==
    /\ CutMade
    /\ cut_pos < max_chars
    /\ \E j \in (cut_pos + 1)..max_chars :
          cut_from[j] \in _JP_BREAK_CHARS /\ ~MayCutAt(cut_from, j)

\* C29: the re-split loop ends for every part; each cut position lies
\* between 1 and 20, so each cut emits a non-empty chunk and leaves a strictly
\* shorter remainder, and the loop ends with at most 20 characters left.
C29_LoopTerminates ==
    /\ <>(cut_pc = "done")
    /\ [](CutMade =>
            /\ cut_pos \in 1..max_chars
            /\ \A k \in 1..Len(cut_chunks) : cut_chunks[k] # <<>>
            /\ Len(cut_rest) < Len(cut_from))
    /\ [](cut_pc = "done" => Len(cut_rest) <= max_chars)

\* the loop has ended after two cuts and a last append
C29_Witness ==
    /\ cut_pc = "done"
    /\ Len(cut_chunks) = 3
    /\ cut_rest # <<>>
    /\ Len(cut_rest) <= max_chars

(***************************************************************************)
(* Property of retry_on_rate_limit.                                        *)
(***************************************************************************)
\* C30: the wrapped function is invoked at most max_retries + 1 times; the
\* wrapper returns at the first attempt that succeeds; every error followed
\* by another attempt was retryable and was followed by a wait of
\* base_delay * 2^k (k its attempt, from zero); an error not followed by
\* another attempt was the error of attempt max_retries or a non-retryable
\* one, and it is the error the wrapper raises.
C30_RetryDiscipline ==
    LET n == Len(retry_log)
    IN  /\ n <= retry_max + 1
        /\ Len(retry_waits) =
               IF retry_pc = "done" /\ n > 0 THEN n - 1 ELSE n
        /\ \A k \in 1..Len(retry_waits) :
              /\ retry_log[k] \in RaisedErrors
              /\ _is_retryable(retry_log[k]) = "True"
              /\ retry_waits[k] = retry_base * Pow2(k - 1)
        /\ retry_pc = "call" => retry_result = "pending"
        /\ retry_pc = "done" =>
              /\ n >= 1
              /\ retry_log[n] = Returned <=> retry_result = "returned"
              /\ retry_log[n] # Returned =>
                    /\ retry_result = retry_log[n].cls
                    /\ n - 1 < retry_max =>
                          _is_retryable(retry_log[n]) # "True"

(***************************************************************************)
(* Properties of parse_conte.                                              *)
(***************************************************************************)
\* C15 (as stated): once parse_conte has ended on a document with scene
\* headers, it has raised the missing-narration error exactly when some block
\* holds no narration label, naming the 1-based number of the first such
\* block, and has returned a scene for every block otherwise.
C15_ErrorIffLabelAbsent ==
    LET headers == SceneHeaders(conte_text)
        LabelPresent(k) ==
            \E p \in 1..Len(BlockOf(conte_text, headers[k])) :
                BlockOf(conte_text, headers[k])[p] = "lbl_narr"
        missing == {k \in 1..Len(headers) : ~LabelPresent(k)}
    IN  (conte_pc \in {"done", "error"} /\ headers # <<>>) =>
            IF missing = {}
            THEN conte_pc = "done" /\ Len(conte_scenes) = Len(headers)
            ELSE /\ conte_pc = "error"
                 /\ conte_error = [kind |-> "narration",
                                   scene |-> SetMin(missing)]

\* C15 (amended): once parse_conte has ended on a document with scene
\* headers, it has raised the missing-narration error exactly when some block
\* holds no narration label that is followed, after optional whitespace, by a
\* colon and then by at least one non-whitespace character; the error names
\* the 1-based number of the first such block; a narration of one character
\* is accepted.
C15_ErrorIffNarrationAbsent ==
    LET headers == SceneHeaders(conte_text)
        NarrationGiven(k) ==
            LET block == BlockOf(conte_text, headers[k])
            IN  \E p \in 1..Len(block) :
                    /\ block[p] = "lbl_narr"
                    /\ \E c \in (p + 1)..Len(block) :
                           /\ block[c] \in {"colon", "fw_colon"}
                           /\ \A w \in (p + 1)..(c - 1) :
                                  block[w] \in Whitespace
                           /\ \E x \in (c + 1)..Len(block) :
                                  block[x] \notin Whitespace
        missing == {k \in 1..Len(headers) : ~NarrationGiven(k)}
    IN  (conte_pc \in {"done", "error"} /\ headers # <<>>) =>
            IF missing = {}
            THEN conte_pc = "done" /\ Len(conte_scenes) = Len(headers)
            ELSE /\ conte_pc = "error"
                 /\ conte_error = [kind |-> "narration",
                                   scene |-> SetMin(missing)]

\* the first block was accepted with a narration of one character and the
\* second one, whose narration label is followed by nothing, raised the error
\* naming scene 2
C15_Witness ==
    /\ conte_pc = "error"
    /\ conte_error = [kind |-> "narration", scene |-> 2]
    /\ Len(conte_scenes) = 1
    /\ conte_scenes[1].narration_text = <<"a">>
    /\ conte_sections[2].body = <<NarrEmptyLine>>

\* C16: no text of a following section appears in a scene's fields: the
\* narration, the statistic and the library image of every scene parsed are
\* the ones written in the body of the scene's own section.
C16_FieldsFromOwnSection ==
    LET sceneSections ==
            SelectSeq(conte_sections,
                      LAMBDA sec : sec.header \in {"scene", "tight"})
        Own(k, label) ==
            ExtractField(Strip(Join(sceneSections[k].body, <<"nl">>)), label)
    IN  \A k \in 1..Len(conte_scenes) :
            /\ conte_scenes[k].narration_text = Own(k, "lbl_narr")
            /\ conte_scenes[k].visual_text = Own(k, "lbl_vis")
            /\ conte_scenes[k].stat_overlay = Own(k, "lbl_stat")
            /\ conte_scenes[k].library_image = Own(k, "lbl_img")

\* C18: advisories never interrupt parsing.  For every block parsed so far,
\* exactly one warning names its missing statistic when the block has none
\* (and stat_overlay is None), exactly one names the overridden visual
\* description when the block has both a library image and a visual
\* description (and library_image is set), and a scene was appended for the
\* block; parse_conte returns a scene for every block, unless it stopped at a
\* block without narration.
C18_AdvisoriesDoNotInterrupt ==
    LET headers == SceneHeaders(conte_text)
        Block(k) == BlockOf(conte_text, headers[k])
        Count(kind, k) ==
            Cardinality({j \in 1..Len(conte_warnings) :
                            conte_warnings[j] = [kind |-> kind, scene |-> k]})
        StatAbsent(k) == ExtractField(Block(k), "lbl_stat") = <<>>
        Overrides(k) ==
            /\ ExtractField(Block(k), "lbl_img") # <<>>
            /\ ExtractField(Block(k), "lbl_vis") # <<>>
    IN  /\ \A k \in 1..Len(conte_scenes) :
               /\ conte_scenes[k].index = k - 1
               /\ Count("stat_missing", k) = IF StatAbsent(k) THEN 1 ELSE 0
               /\ StatAbsent(k) => conte_scenes[k].stat_overlay = <<>>
               /\ Count("image_overrides_visual", k)
                      = IF Overrides(k) THEN 1 ELSE 0
               /\ Overrides(k) => conte_scenes[k].library_image # <<>>
        /\ \A j \in 1..Len(conte_warnings) :
               conte_warnings[j].scene \in 1..Len(conte_scenes)
        /\ conte_pc = "done" => Len(conte_scenes) = Len(headers)
        /\ (conte_pc = "error" /\ headers # <<>>) =>
               /\ Len(conte_scenes) < Len(headers)
               /\ ExtractField(Block(Len(conte_scenes) + 1), "lbl_narr") = <<>>

\* the first block has no statistic and has both a library image and a visual
\* description: two warnings were emitted and both scenes were returned
C18_Witness ==
    /\ conte_pc = "done"
    /\ Len(conte_scenes) = 2
    /\ conte_scenes[1].stat_overlay = <<>>
    /\ conte_scenes[1].library_image # <<>>
    /\ conte_scenes[1].visual_text # <<>>
    /\ Len(conte_warnings) >= 2

(***************************************************************************)
(* Properties of write_srt.                                                *)
(***************************************************************************)
\* C19: write_srt on an empty entry list writes the empty text; on k entries
\* the text written, cut at its newlines, is 4k lines: for the i-th entry, in
\* order, its index, its timing line "start --> end", its text and an empty
\* line.
C19_FourLinesPerEntry ==
    srt_pc = "done" =>
        LET k == Len(entries)
            nls == SortedSeq({p \in 1..Len(srt_output) :
                                 srt_output[p] = "nl"})
            Line(j) ==
                SubSeq(srt_output,
                       IF j = 1 THEN 1 ELSE nls[j - 1] + 1,
                       IF j = Len(nls) + 1 THEN Len(srt_output)
                       ELSE nls[j] - 1)
        IN  IF k = 0 THEN srt_output = <<>>
            ELSE /\ Len(nls) + 1 = 4 * k
                 /\ \A i \in 1..k :
                        /\ Line(4 * i - 3) = DecimalOf(entries[i].index, 1)
                        /\ Line(4 * i - 2) =
                               _format_time(entries[i].start_time)
                                   \o <<"sp", "minus", "minus", "gt", "sp">>
                                   \o _format_time(entries[i].end_time)
                        /\ Line(4 * i - 1) = entries[i].text
                        /\ Line(4 * i) = <<>>

\* entries of two scenes were written, the second one starting after 0 s
C19_Witness ==
    /\ srt_pc = "done"
    /\ Len(entries) >= 2
    /\ alloc[Len(alloc)].scene # alloc[1].scene
    /\ entries[Len(entries)].start_time > 0
    /\ srt_output # <<>>

(***************************************************************************)
(* Properties of generate_video.                                           *)
(***************************************************************************)
\* C17: every input-validation error (empty text, no scene, missing
\* narration, invalid slug of a library image) is raised before any call of
\* generate_speech and before any image call.
C17_ValidationBeforeCalls ==
    video_error \in {"empty", "no_scenes", "narration", "invalid_slug"} =>
        /\ spoken = <<>>
        /\ image_calls = <<>>

\* C20 (as stated): parse_conte is the parser used exactly when the text has
\* a scene header; every other text goes to split_into_scenes.
C20_ConteIffMarkup ==
    video_parser # "none" =>
        /\ video_parser = "parse_conte" <=> is_conte_format(video_text)
        /\ video_parser = "split_into_scenes" <=> ~is_conte_format(video_text)

\* C20 (amended): parse_conte is the parser used exactly when the suffix of
\* the input file is ".md" in any letter case or the text has a scene header;
\* every other input goes to split_into_scenes; the parser not chosen is
\* never entered.
C20_ConteIffMarkdownOrMarkup ==
    LET markdown ==
            /\ Len(video_suffix) = 3
            /\ video_suffix[1] = "dot"
            /\ video_suffix[2] \in {"m", "M"}
            /\ video_suffix[3] \in {"d", "D"}
        conte == markdown \/ is_conte_format(video_text)
    IN  /\ video_parser # "none" =>
               /\ video_parser = "parse_conte" <=> conte
               /\ video_parser = "split_into_scenes" <=> ~conte
        /\ conte_pc # "idle" => video_parser = "parse_conte"
        /\ seg_pc # "idle" => video_parser = "split_into_scenes"

\* a ".MD" file of prose went to parse_conte, which found no scene
C20_Witness ==
    /\ video_parser = "parse_conte"
    /\ video_suffix = <<"dot", "M", "D">>
    /\ ~is_conte_format(video_text)
    /\ video_error = "no_scenes"

(***************************************************************************)
(* Properties of the pipeline.                                             *)
(***************************************************************************)
\* C10: the text handed to the speech-synthesis call of every scene is the
\* scene's tts_text, the overridden text when the readings pass replaced it.
C10_SpokenIsTtsText ==
    \A i \in 1..Len(spoken) : spoken[i] = pipe_scenes[i].tts_text

====
